---- MODULE Spec2Model ----
(***************************************************************************)
(* Model of the planning pipeline of ai-agent-planner: the orchestrator    *)
(* (src/src/lib/orchestrator.ts), the quality checklist                    *)
(* (src/src/lib/quality-checklist.ts), the stage catalogue                 *)
(* (src/src/lib/agents.ts), and callAI and parseJSONResponse               *)
(* (src/src/lib/ai-client.ts).                                             *)
(*                                                                         *)
(* A stage output (a JSON value) is abstracted to the record of the facts  *)
(* the orchestrator and the checklist read from it; `valid` is the verdict *)
(* validateJSON gives for it against the schema of its stage.              *)
(***************************************************************************)
EXTENDS Integers, Sequences, FiniteSets, TLC

\* ------------------------------------------------------------------------
\* Bounds of the model
\* ------------------------------------------------------------------------
\* longest text handed to parseJSONResponse
MaxText == 4

\* largest options.retries a caller of callAI passes
MaxCallRetries == 5

\* longest revisionRequests list a critic output carries
MaxRevs == 2
\* longest decisions list one stage output carries in the ledger study
MaxDecisions == 1
\* most stage results in a collection of the ledger study
MaxPhases == 2

\* ------------------------------------------------------------------------
\* Program constants
\* ------------------------------------------------------------------------
maxRetries == 3
\* severity threshold 0.5, in tenths
SeverityThreshold == 5

AGENT_PHASES ==
  << "competitor", "strategy", "ux", "system", "data", "api", "ui",
     "prompts", "qa", "techwriter", "critic", "composer" >>

NumPhases == Len(AGENT_PHASES)

\* the provider the application constructs the orchestrator with
provider == "openai"

PhaseTypes == { AGENT_PHASES[k] : k \in 1..NumPhases }

\* faulty variant: the lookup table lacks the system stage
byTypeWithoutSystem(type) == type \in PhaseTypes \ { "system" }

\* byType[type] of applyQualityChecklist / applyCriticRevisions: the lookup
\* is by the lower-cased name; an unknown name gives undefined
byType(type) == type \in PhaseTypes

\* ------------------------------------------------------------------------
\* Stage outputs
\* ------------------------------------------------------------------------
\* what `p.output || {}` gives for a stage that produced nothing
EmptyOutput ==
  [ valid                |-> FALSE,
    decisions            |-> << >>,
    authChoice           |-> "",
    hasPwdHash           |-> FALSE,
    hasFirebaseUid       |-> FALSE,
    hasMotion            |-> FALSE,
    hasSkeletons         |-> FALSE,
    hasPagination        |-> FALSE,
    hasErrorModel        |-> FALSE,
    hasNonFunctional     |-> FALSE,
    hasProvidersPolicies |-> FALSE,
    hasScaffolding       |-> FALSE,
    hasSmokeTest         |-> FALSE,
    hasCompetitorData    |-> FALSE,
    \* strategy.features.must is a non-empty array
    featuresMust         |-> FALSE,
    \* strategy.priorityMatrix.must, the list the strategy schema requires,
    \* holds an item
    priorityMust         |-> FALSE,
    revisionRequests     |-> << >>,
    \* Array.isArray(output.revisionRequests)
    revisionRequestsIsArray |-> FALSE,
    severityIndex        |-> 0,
    \* typeof output.severityIndex
    severityIndexType    |-> "undefined",
    \* the error list validateJSON reports for it: {} lacks the required
    \* properties of every stage schema
    errors               |-> << "/ must have required property" >> ]

Decision(k, v) == [ key |-> k, value |-> v ]

\* a parsed value that fails the schema of its stage
InvalidOutput == EmptyOutput

\* another one: the JSON value [], which is no object
ArrayOutput == [ EmptyOutput EXCEPT !.errors = << "/ must be object" >> ]

InvalidOutputs == { InvalidOutput, ArrayOutput }

\* the schema-valid outputs the backend is taken to produce, per stage
DecisionsOfStage(type) ==
  CASE type = "strategy" ->
         { << Decision("auth", "s1") >> }
    [] type = "system" ->
         { << >>, << Decision("auth", "y1") >> }
    [] OTHER -> { << >> }

CriticTargets == { "strategy", "nosuch" }

RECURSIVE SeqsUpTo(_, _)
SeqsUpTo(S, n) ==
  IF n = 0 THEN { << >> }
  ELSE LET shorter == SeqsUpTo(S, n - 1)
       IN  shorter \cup { Append(s, x) : s \in { t \in shorter : Len(t) = n - 1 }, x \in S }

ValidOutputs(type) ==
  LET base == [ EmptyOutput EXCEPT !.valid = TRUE, !.errors = << >> ]
  IN CASE type = "competitor" ->
            { [ base EXCEPT !.hasCompetitorData = TRUE ] }
       [] type = "strategy" ->
            { [ base EXCEPT !.decisions = d, !.featuresMust = TRUE,
                            !.priorityMust = TRUE ] :
                d \in DecisionsOfStage(type) }
       [] type = "ux" ->
            { [ base EXCEPT !.authChoice = c ] : c \in { "firebase", "" } }
       [] type = "system" ->
            \* nonFunctional and providersPolicies are required by the schema
            { [ base EXCEPT !.decisions = d, !.hasNonFunctional = TRUE,
                            !.hasProvidersPolicies = TRUE ] :
                d \in DecisionsOfStage(type) }
       [] type = "data" ->
            { [ base EXCEPT !.hasPwdHash = TRUE ] }
       [] type = "api" ->
            { [ base EXCEPT !.hasPagination = TRUE, !.hasErrorModel = TRUE ] }
       [] type = "ui" ->
            { [ base EXCEPT !.hasMotion = TRUE, !.hasSkeletons = TRUE ] }
       [] type = "prompts" ->
            { [ base EXCEPT !.hasScaffolding = TRUE, !.hasSmokeTest = TRUE ] }
       [] type = "critic" ->
            \* every list of requests with a severity just below the threshold,
            \* and the empty list with a severity at the threshold
            { [ base EXCEPT !.revisionRequests = r,
                            !.revisionRequestsIsArray = TRUE,
                            !.severityIndex = SeverityThreshold - 1,
                            !.severityIndexType = "number" ] :
                r \in SeqsUpTo(CriticTargets, MaxRevs) }
              \cup { [ base EXCEPT !.revisionRequestsIsArray = TRUE,
                                   !.severityIndex = SeverityThreshold,
                                   !.severityIndexType = "number" ] }
       [] OTHER -> { base }

\* ------------------------------------------------------------------------
\* Decision ledger (orchestrator.ts, extractDecisionLedger)
\* ------------------------------------------------------------------------
\* ledger.push(...phase.output.decisions) over the phases, in array order
RECURSIVE AllDecisions(_)
AllDecisions(phases) ==
  IF phases = << >> THEN << >>
  ELSE AllDecisions(SubSeq(phases, 1, Len(phases) - 1))
         \o phases[Len(phases)].output.decisions

\* faulty variant: every entry is appended, a key already present is not replaced
MapSetAppend(map, d) == Append(map, d)

\* Map.set(d.key, d): a key already in the map keeps its place and takes the
\* new entry, a new key goes to the end
MapSet(map, d) ==
  IF \E j \in 1..Len(map) : map[j].key = d.key
  THEN [ j \in 1..Len(map) |-> IF map[j].key = d.key THEN d ELSE map[j] ]
  ELSE Append(map, d)

\* for (const d of ledger) if (d?.key) map.set(...)
RECURSIVE DedupeByKey(_)
DedupeByKey(ledger) ==
  IF ledger = << >> THEN << >>
  ELSE LET map == DedupeByKey(SubSeq(ledger, 1, Len(ledger) - 1))
           d   == ledger[Len(ledger)]
       IN  IF d.key # "" THEN MapSet(map, d) ELSE map

extractDecisionLedger(previousPhases) == DedupeByKey(AllDecisions(previousPhases))

\* ------------------------------------------------------------------------
\* Quality checklist (quality-checklist.ts)
\* ------------------------------------------------------------------------
\* byType[p.phase_type] = p.output || {} : the last entry of a type wins,
\* a type without an entry reads as {}
OutputByType(phases, type) ==
  LET idx == { k \in 1..Len(phases) : phases[k].phase_type = type }
  IN  IF idx = {} THEN EmptyOutput
      ELSE phases[CHOOSE k \in idx : \A m \in idx : m <= k].output

IncludesFirebase(choice) == choice \in { "firebase", "firebase local" }
IncludesLocal(choice) == choice \in { "local", "firebase local" }

Revision(type, text) == [ phase |-> type, request |-> text ]

\* the keys met a second time while scanning all decisions
DuplicateKeys(phases) ==
  LET all == AllDecisions(phases)
  IN  { all[k].key : k \in { m \in 1..Len(all) :
          /\ all[m].key # ""
          /\ \E n \in 1..(m - 1) : all[n].key = all[m].key } }

\* one rule's contribution: its item, and its failItems / targetedRevisions
\* entries when its failure condition holds
Rule(name, passed, failed, label, revisions) ==
  [ item      |-> [ check |-> name, passed |-> passed ],
    failItems |-> IF failed THEN << label >> ELSE << >>,
    revisions |-> IF failed THEN revisions ELSE << >> ]

ChecklistRules(phases) ==
  LET ux         == OutputByType(phases, "ux")
      system     == OutputByType(phases, "system")
      data       == OutputByType(phases, "data")
      api        == OutputByType(phases, "api")
      ui         == OutputByType(phases, "ui")
      prompts    == OutputByType(phases, "prompts")
      strategy   == OutputByType(phases, "strategy")
      competitor == OutputByType(phases, "competitor")
      authConsistent ==
        \/ IncludesFirebase(ux.authChoice) /\ data.hasFirebaseUid /\ ~data.hasPwdHash
        \/ IncludesLocal(ux.authChoice) /\ data.hasPwdHash /\ ~data.hasFirebaseUid
        \/ ~IncludesFirebase(ux.authChoice) /\ ~IncludesLocal(ux.authChoice)
      opportunitiesReflected == ~competitor.hasCompetitorData \/ strategy.featuresMust
  IN << Rule("auth", authConsistent, ~authConsistent, "Auth mismatch across phases",
             << Revision("system", "auth"), Revision("data", "users") >>),
        Rule("design", ui.hasMotion /\ ui.hasSkeletons,
             ~ui.hasMotion \/ ~ui.hasSkeletons,
             "Missing motion or skeleton patterns in design system",
             << Revision("ui", "motion") >>),
        Rule("api", api.hasPagination /\ api.hasErrorModel,
             ~api.hasPagination \/ ~api.hasErrorModel,
             "Missing pagination or error model in API spec",
             << Revision("api", "pagination") >>),
        Rule("nonFunctional", system.hasNonFunctional, ~system.hasNonFunctional,
             "Missing non-functional requirements",
             << Revision("system", "nonFunctional") >>),
        Rule("providers", system.hasProvidersPolicies, ~system.hasProvidersPolicies,
             "Missing provider policies",
             << Revision("system", "providersPolicies") >>),
        \* rule 6 pushes its item only: no failItems entry, no revision
        Rule("ledger", DuplicateKeys(phases) = {}, FALSE, "", << >>),
        Rule("prompts", prompts.hasScaffolding /\ prompts.hasSmokeTest,
             ~prompts.hasScaffolding \/ ~prompts.hasSmokeTest,
             "Missing required prompts",
             << Revision("prompts", "scaffolding") >>),
        Rule("competitor", opportunitiesReflected,
             competitor.hasCompetitorData /\ ~opportunitiesReflected,
             "Competitor insights not incorporated into strategy",
             << Revision("strategy", "opportunities") >>) >>

RECURSIVE Flatten(_)
Flatten(seqs) ==
  IF seqs = << >> THEN << >> ELSE Head(seqs) \o Flatten(Tail(seqs))

\* the ChecklistResult put together from the contributions of the rules
ChecklistResultOf(rules) ==
  LET failItems == Flatten([ k \in 1..Len(rules) |-> rules[k].failItems ])
  IN  [ status            |-> IF Len(failItems) = 0 THEN "pass" ELSE "fail",
        items             |-> [ k \in 1..Len(rules) |-> rules[k].item ],
        failItems         |-> failItems,
        targetedRevisions |-> Flatten([ k \in 1..Len(rules) |-> rules[k].revisions ]) ]

runQualityChecklist(phases) ==
  \* the rules are evaluated once
  CHOOSE result \in { ChecklistResultOf(rules) : rules \in { ChecklistRules(phases) } } :
    TRUE

\* ------------------------------------------------------------------------
\* State of one run of AgentOrchestrator.runAllPhases
\* ------------------------------------------------------------------------
VARIABLES
  projectStatus,    \* projects.status of the project in the store ("none": no such project)
  preRunStatus,     \* history: projects.status when runAllPhases was called
  pc,               \* where runAllPhases stands
  i,                \* index of the first-pass loop (1-based)
  completedPhases,  \* the in-memory PlanningPhase[] of runAllPhases
  planning_phases,  \* the rows of table planning_phases, a row's id is its index
  queue,            \* revision requests the current for-of loop still has to visit
  checklist,        \* the ChecklistResult of applyQualityChecklist
  rp,               \* the frame of the runPhase call in progress, or of the last one
  error,            \* the error thrown inside the run
  executions,       \* history: the runPhase calls made, in order
  checklistRuns,    \* history: the runQualityChecklist calls made
  progress,         \* the OrchestrationProgress last handed to onProgress
  call,             \* the frame of a callAI call
  parseFrame        \* the frame of a parseJSONResponse call

vars ==
  << projectStatus, preRunStatus, pc, i, completedPhases, planning_phases,
     queue, checklist, rp, error, executions, checklistRuns, progress, call,
     parseFrame >>

NoError == [ kind |-> "none", phase |-> "", errors |-> << >> ]

NoChecklist ==
  [ status |-> "none", items |-> << >>, failItems |-> << >>,
    targetedRevisions |-> << >> ]

IdleFrame ==
  [ step |-> "idle", phase |-> "", recordId |-> 0, attempt |-> 0,
    output |-> EmptyOutput, last |-> "none", primaryCalls |-> 0,
    repairCalls |-> 0, decisionLedger |-> << >> ]

\* no notifyProgress call has been made
NoProgress ==
  [ currentPhase |-> "", completedPhases |-> << >>, totalPhases |-> 0,
    error |-> "" ]

\* completedPhases.map((p) => p.phase_type)
TypesOf(phases) == [ k \in 1..Len(phases) |-> phases[k].phase_type ]

\* the notification at the head of an iteration of the first-pass loop; the
\* name of a stage is written as its type
StageProgress(phase, phases) ==
  [ currentPhase |-> phase, completedPhases |-> TypesOf(phases),
    totalPhases |-> NumPhases, error |-> "" ]

\* error instanceof Error ? error.message : 'Unknown error'.  The errors
\* runPhase builds with new Error carry their message (written as the kind
\* of the error); an error object the store client returned is handed on as
\* it came, and whether it is an Error depends on the client
Messages(err) ==
  IF err.kind \in { "insert", "update" } THEN { err.kind, "Unknown error" }
  ELSE { err.kind }

\* the notification in the catch block of the first-pass loop
ErrorProgress(phase, phases, message) ==
  [ StageProgress(phase, phases) EXCEPT !.error = message ]

\* the notification at the end of runAllPhases
CompletedProgress ==
  [ currentPhase |-> "Completed", completedPhases |-> AGENT_PHASES,
    totalPhases |-> NumPhases, error |-> "" ]

\* no callAI call and no parseJSONResponse call is in progress
IdleCall ==
  [ step |-> "idle", retries |-> [ given |-> FALSE, value |-> 0 ], env |-> TRUE, maxRetries |-> 0,
    attempt |-> 0, tries |-> 0, clock |-> "none", timer |-> "none",
    lastError |-> "none", failed |-> 0, tryError |-> "none",
    delays |-> << >> ]

IdleParse == [ step |-> "idle", text |-> << >>, ok |-> FALSE, value |-> << >> ]

\* the states of the controller in which runAllPhases calls runPhase
LoopPcs == { "autoFix", "targetedRerun" }
RunPcs == { "firstPass", "autoFix", "targetedRerun", "reCritic", "recompose" }

Init ==
  /\ projectStatus \in { "draft", "planning", "completed", "none" }
  /\ preRunStatus = projectStatus
  /\ pc = "load"
  /\ i = 1
  /\ completedPhases = << >>
  /\ planning_phases = << >>
  /\ queue = << >>
  /\ checklist = NoChecklist
  /\ rp = IdleFrame
  /\ error = NoError
  /\ executions = << >>
  /\ checklistRuns = 0
  /\ progress = NoProgress
  /\ call = IdleCall
  /\ parseFrame = IdleParse

\* ------------------------------------------------------------------------
\* runAllPhases: loading the project
\* ------------------------------------------------------------------------
\* faulty variant: the status is set to planning before the read is looked at
LoadProjectStatusFirst ==
  /\ pc = "load"
  /\ \E readOk \in BOOLEAN :
       /\ projectStatus' = IF projectStatus = "none" THEN "none" ELSE "planning"
       /\ IF readOk /\ projectStatus # "none"
          THEN /\ pc' = "firstPass"
               /\ error' = error
          ELSE /\ pc' = "rejected"
               /\ error' = [ kind  |-> IF readOk THEN "notFound" ELSE "projErr",
                             phase |-> "", errors |-> << >> ]
  /\ UNCHANGED << preRunStatus, i, completedPhases, planning_phases, queue,
                  checklist, rp, executions, checklistRuns >>
  /\ UNCHANGED << progress, call, parseFrame >>

LoadProject ==
  /\ pc = "load"
  /\ \E readOk \in BOOLEAN :
       IF readOk /\ projectStatus # "none"
       THEN /\ projectStatus' = "planning"
            /\ pc' = "firstPass"
            /\ error' = error
       ELSE /\ projectStatus' = projectStatus
            /\ pc' = "rejected"
            /\ error' = [ kind  |-> IF readOk THEN "notFound" ELSE "projErr",
                          phase |-> "", errors |-> << >> ]
  /\ UNCHANGED << preRunStatus, i, completedPhases, planning_phases, queue,
                  checklist, rp, executions, checklistRuns >>
  /\ UNCHANGED << progress, call, parseFrame >>

\* ------------------------------------------------------------------------
\* runPhase
\* ------------------------------------------------------------------------
\* faulty variant: the first-pass loop walks the catalogue from its end
TargetLastFirst ==
  CASE pc = "firstPass" -> AGENT_PHASES[NumPhases + 1 - i]
    [] pc \in LoopPcs   -> Head(queue).phase
    [] pc = "reCritic"  -> "critic"
    [] pc = "recompose" -> "composer"

\* the stage the caller hands to runPhase
Target ==
  CASE pc = "firstPass" -> AGENT_PHASES[i]
    [] pc \in LoopPcs   -> Head(queue).phase
    [] pc = "reCritic"  -> "critic"
    [] pc = "recompose" -> "composer"

\* faulty variant: the caller does not await the runPhase call in progress
CanCallRunPhaseNoAwait ==
  /\ pc \in RunPcs
  /\ rp.step \in { "idle", "generate" }
  /\ pc \in LoopPcs => queue # << >> /\ byType(Head(queue).phase)

CanCallRunPhase ==
  /\ pc \in RunPcs
  /\ rp.step = "idle"
  /\ pc \in LoopPcs => queue # << >> /\ byType(Head(queue).phase)

\* the insert of the processing row and the building of contextData
StartPhase ==
  /\ CanCallRunPhase
  /\ executions' = Append(executions, [ phase |-> Target, during |-> pc ])
  /\ \E insertOk \in BOOLEAN :
       IF insertOk
       THEN /\ planning_phases' =
                 Append(planning_phases,
                        [ phase_type |-> Target, status |-> "processing",
                          output |-> EmptyOutput, model_used |-> "",
                          completed_at |-> 0 ])
            /\ rp' = [ IdleFrame EXCEPT
                         !.step = "generate",
                         !.phase = Target,
                         !.recordId = Len(planning_phases) + 1,
                         !.decisionLedger = extractDecisionLedger(completedPhases) ]
            /\ error' = error
       ELSE /\ planning_phases' = planning_phases
            /\ rp' = [ IdleFrame EXCEPT !.step = "thrown", !.phase = Target ]
            /\ error' = [ kind |-> "insert", phase |-> Target, errors |-> << >> ]
  /\ UNCHANGED << projectStatus, preRunStatus, pc, i, completedPhases, queue,
                  checklist, checklistRuns >>
  \* this.notifyProgress(...) at the head of the first-pass iteration; the
  \* other callers of runPhase make no such call
  /\ progress' = IF pc = "firstPass"
                 THEN StageProgress(Target, completedPhases)
                 ELSE progress
  /\ UNCHANGED << call, parseFrame >>

\* artifacts[phase.phase_type] = phase.output, a later entry of a type wins
buildPriorArtifacts(previousPhases) ==
  [ type \in { previousPhases[k].phase_type : k \in 1..Len(previousPhases) } |->
      OutputByType(previousPhases, type) ]

contextData(previousPhases) ==
  [ projectDescription |-> "description",
    priorArtifacts     |-> buildPriorArtifacts(previousPhases),
    decisionLedger     |-> extractDecisionLedger(previousPhases) ]

\* the user message of the primary call: the context, the outputs of the
\* previous phases, the task of the stage and its schema
buildContextualPrompt(phase, context, previousPhases) ==
  [ context  |-> context,
    previous |-> [ k \in 1..Len(previousPhases) |->
                     [ phase_type |-> previousPhases[k].phase_type,
                       output     |-> previousPhases[k].output ] ],
    task     |-> phase,
    schema   |-> phase ]

\* ------------------------------------------------------------------------
\* callAI (src/src/lib/ai-client.ts): one generation call, with its tries
\* ------------------------------------------------------------------------
\* options.retries ?? 3
DefaultRetries == 3

\* (attempt + 1) * 1000 + Math.floor(Math.random() * 250)
BackoffStepMs == 1000
JitterMs == 250

\* values Math.floor(Math.random() * 250) can take: its least, its greatest
Jitters == { 0, JitterMs - 1 }

\* options.retries: not given (runPhase gives none), or a count
NoRetries == [ given |-> FALSE, value |-> 0 ]

Retries(n) == [ given |-> TRUE, value |-> n ]

backoffMs(attempt, jitter) == (attempt + 1) * BackoffStepMs + jitter

\* the frame of callAI at its entry.  clock is the time since the try's
\* fetch was issued, against timeoutMs: within it, at it, past it; failed
\* and tryError are history: the tries that failed and the error of the
\* last of them; delays is history: the backoffMs values slept
StartCall(option, env) ==
  [ step |-> "entry", retries |-> option, env |-> env,
    maxRetries |-> IF option.given THEN option.value ELSE DefaultRetries,
    attempt |-> 0, tries |-> 0, clock |-> "none", timer |-> "none",
    lastError |-> "none", failed |-> 0, tryError |-> "none",
    delays |-> << >> ]

\* faulty variant: the call after a parse or schema failure starts with a
\* backoff sleep
AfterCallBackoff(nextStep) ==
  IF call.step = "idle" THEN call
  ELSE IF nextStep \in { "generate", "repair" }
  THEN [ StartCall(call.retries, call.env) EXCEPT
           !.delays = << backoffMs(0, 0) >> ]
  ELSE IdleCall

\* the frame of the callAI call runPhase makes next, once this one settled;
\* the frame stays idle where the tries of callAI are not followed
AfterCall(nextStep) ==
  IF call.step = "idle" THEN call
  ELSE IF nextStep \in { "generate", "repair" }
  THEN StartCall(call.retries, call.env)
  ELSE IdleCall

RestOfRun ==
  << projectStatus, preRunStatus, pc, i, completedPhases, planning_phases,
     queue, checklist, rp, error, executions, checklistRuns, progress,
     parseFrame >>

\* if (!supabaseUrl || !supabaseAnonKey) throw ...
EnterCall ==
  /\ call.step = "entry"
  /\ call' = IF call.env
             THEN [ call EXCEPT !.step = "try" ]
             ELSE [ call EXCEPT !.step = "thrown", !.lastError = "missingEnv" ]
  /\ UNCHANGED RestOfRun

\* the head of a try: new AbortController, setTimeout, fetch
SendRequest ==
  /\ call.step = "try"
  /\ call.attempt < call.maxRetries
  /\ call' = [ call EXCEPT !.step = "fetch", !.tries = call.tries + 1,
                           !.clock = "within", !.timer = "armed" ]
  /\ UNCHANGED RestOfRun

\* time goes by while callAI awaits; an armed timer goes off at timeoutMs,
\* so the clock of a fetch that is awaited under an armed timer stops there
TimePasses ==
  /\ call.step \in { "fetch", "json", "text" }
  /\ \/ /\ call.clock = "within"
        /\ call' = [ call EXCEPT !.clock = "at" ]
     \/ /\ call.clock = "at"
        /\ ~(call.step = "fetch" /\ call.timer = "armed")
        /\ call' = [ call EXCEPT !.clock = "past" ]
  /\ UNCHANGED RestOfRun

\* if (attempt < maxRetries - 1)
SleepsAfter(frame) == frame.attempt < frame.maxRetries - 1

\* faulty variant: lastError keeps the error of the first failed try
LastErrorFirst(frame, err) ==
  IF frame.lastError = "none" THEN err ELSE frame.lastError

\* lastError = err
LastError(frame, err) == err

\* the catch block of a try: the error is kept, and the try is followed by
\* a sleep when it was not the last
Catch(frame, err, jitter) ==
  LET failed == [ frame EXCEPT !.lastError = LastError(frame, err),
                               !.failed = frame.failed + 1,
                               !.tryError = err ]
  IN  IF SleepsAfter(frame)
      THEN [ failed EXCEPT !.step = "sleep",
                           !.delays = Append(frame.delays,
                                             backoffMs(frame.attempt, jitter)) ]
      ELSE [ failed EXCEPT !.step = "try", !.attempt = frame.attempt + 1 ]

\* the timer goes off: controller.abort() rejects the fetch with AbortError
AbortFires ==
  /\ call.step = "fetch"
  /\ call.timer = "armed"
  /\ call.clock = "at"
  /\ \E jitter \in Jitters :
       call' = Catch([ call EXCEPT !.timer = "fired" ], "timeout", jitter)
  /\ UNCHANGED RestOfRun

\* fetch rejects (no connection); clearTimeout is not reached
FetchRejects ==
  /\ call.step = "fetch"
  /\ \E jitter \in Jitters :
       call' = Catch([ call EXCEPT !.timer = "leaked" ], "network", jitter)
  /\ UNCHANGED RestOfRun

\* fetch resolves with the status line and the headers; clearTimeout
HeadersArrive ==
  /\ call.step = "fetch"
  /\ \E ok \in BOOLEAN :
       call' = [ call EXCEPT !.step = IF ok THEN "json" ELSE "text",
                             !.timer = "cleared" ]
  /\ UNCHANGED RestOfRun

\* response.json() resolves: return; response.text() resolves: throw
BodyArrives ==
  /\ call.step \in { "json", "text" }
  /\ \E jitter \in Jitters :
       call' = IF call.step = "json"
               THEN [ call EXCEPT !.step = "returned" ]
               ELSE Catch(call, "proxy", jitter)
  /\ UNCHANGED RestOfRun

\* response.json() or response.text() rejects
BodyFails ==
  /\ call.step \in { "json", "text" }
  /\ \E jitter \in Jitters : call' = Catch(call, "body", jitter)
  /\ UNCHANGED RestOfRun

\* the sleep ends: continue
Wake ==
  /\ call.step = "sleep"
  /\ call' = [ call EXCEPT !.step = "try", !.attempt = call.attempt + 1 ]
  /\ UNCHANGED RestOfRun

\* throw lastError || new Error('Failed to call AI after retries')
ThrowAfterLoop ==
  /\ call.step = "try"
  /\ call.attempt >= call.maxRetries
  /\ call' = [ call EXCEPT !.step = "thrown",
                           !.lastError = IF call.lastError = "none"
                                         THEN "noTries" ELSE call.lastError ]
  /\ UNCHANGED RestOfRun

\* the schema-valid outputs a call can return.  The second review of the
\* critic is stored and read by no later step of the run, so its list is
\* taken to hold at most one request
BackendOutputs(type) ==
  IF pc = "reCritic"
  THEN { o \in ValidOutputs(type) : Len(o.revisionRequests) <= 1 }
  ELSE ValidOutputs(type)

\* what a callAI call of runPhase can come back with: a transport failure
\* after its own retries, text that does not parse, or text that parses
Responses(type) ==
  { r \in { [ kind |-> "transportFailure", value |-> EmptyOutput ],
            [ kind |-> "unparseable", value |-> EmptyOutput ] }
            \cup { [ kind |-> "parsed", value |-> v ] :
                     v \in BackendOutputs(type) \cup InvalidOutputs } :
      \/ call.step = "idle"
      \/ call.step = "thrown" /\ r.kind = "transportFailure"
      \/ call.step = "returned" /\ r.kind # "transportFailure" }

validateJSON(data) == data.valid

\* validation.errors
validationErrors(data) == IF data.valid THEN << >> ELSE data.errors

\* the tagged outcome of a response: what callAI, parseJSONResponse and
\* validateJSON make of it
Outcome(resp) ==
  IF resp.kind # "parsed" THEN resp.kind
  ELSE IF validateJSON(resp.value) THEN "valid" ELSE "invalid"

Throw(kind, errors) ==
  /\ error' = [ kind |-> kind, phase |-> rp.phase, errors |-> errors ]

\* faulty variant: the message is built from the verdict on the output the
\* frame held before this attempt's response was parsed
SchemaFailureErrorsStale(current, previous) == validationErrors(previous)

\* validation.errors.join(', ') of the message "JSON validation failed after
\* 3 attempts": the verdict on the output parsed in this attempt
SchemaFailureErrors(current, previous) == validationErrors(current)

\* faulty variant: the final attempt counts as one with attempts remaining
AttemptsRemainOffByOne(attempt) == attempt < maxRetries

\* the repair branch is taken while attempts remain
AttemptsRemain(attempt) == attempt < maxRetries - 1

\* the step after the body of the attempt loop ran to its end or hit
\* continue.  Every iteration assigns `output` before it reads it, so the
\* value left by the iteration that ended is not kept
NextAttempt(frame) ==
  [ frame EXCEPT !.attempt = frame.attempt + 1,
                 !.output = EmptyOutput,
                 !.last = "none",
                 !.step = IF frame.attempt + 1 < maxRetries
                          THEN "generate" ELSE "update" ]

\* the primary call of an attempt with the parse and the validation
GenerateCall ==
  /\ rp.step = "generate"
  /\ call.step \in { "idle", "returned", "thrown" }
  /\ \E resp \in Responses(rp.phase) :
       LET called == [ rp EXCEPT !.primaryCalls = rp.primaryCalls + 1,
                                 !.last = Outcome(resp) ]
       IN CASE resp.kind = "transportFailure" ->
                 /\ rp' = [ called EXCEPT !.step = "catch" ]
                 /\ Throw("transport", << >>)
            [] resp.kind = "unparseable" ->
                 IF AttemptsRemain(rp.attempt)
                 THEN /\ rp' = NextAttempt(called)
                      /\ error' = error
                 ELSE /\ rp' = [ called EXCEPT !.step = "catch" ]
                      /\ Throw("parse", << >>)
            [] resp.kind = "parsed" ->
                 LET parsed == [ called EXCEPT !.output = resp.value ]
                 IN IF validateJSON(resp.value)
                    THEN /\ rp' = [ parsed EXCEPT !.step = "update" ]
                         /\ error' = error
                    ELSE IF AttemptsRemain(rp.attempt)
                    THEN /\ rp' = [ parsed EXCEPT !.step = "repair" ]
                         /\ error' = error
                    ELSE /\ rp' = [ parsed EXCEPT !.step = "catch" ]
                         /\ Throw("schema", SchemaFailureErrors(resp.value, rp.output))
  /\ UNCHANGED << projectStatus, preRunStatus, pc, i, completedPhases,
                  planning_phases, queue, checklist, executions, checklistRuns >>
  /\ call' = AfterCall(rp'.step)
  /\ UNCHANGED << progress, parseFrame >>

\* faulty variant: a repair response that parses is taken without re-validation
RepairAcceptedUnchecked(value) == TRUE

\* whether the repair response ends the attempt loop
RepairAccepted(value) == validateJSON(value)

\* the temperature options of the two callAI calls of runPhase, in tenths
PrimaryTemperature == 2
RepairTemperature == 1

\* the user message of the repair call: the template interpolates the
\* errors and the schema; its parameter originalResponse is not used
buildRepairPrompt(originalResponse, errors, schema) ==
  [ errors |-> errors, schema |-> schema ]

\* faulty variant: a repair response that does not parse fails the stage
RepairParseFailureThrows == "throw"

\* catch { continue } around the parse of the repair response
RepairParseFailure == "continue"

\* the repair call of an attempt with its parse and re-validation
RepairCall ==
  /\ rp.step = "repair"
  /\ call.step \in { "idle", "returned", "thrown" }
  /\ \E resp \in Responses(rp.phase) :
       LET called == [ rp EXCEPT !.repairCalls = rp.repairCalls + 1,
                                 !.last = Outcome(resp) ]
       IN CASE resp.kind = "transportFailure" ->
                 /\ rp' = [ called EXCEPT !.step = "catch" ]
                 /\ Throw("transport", << >>)
            [] resp.kind = "unparseable" ->
                 IF RepairParseFailure = "continue"
                 THEN /\ rp' = NextAttempt(called)
                      /\ error' = error
                 ELSE /\ rp' = [ called EXCEPT !.step = "catch" ]
                      /\ Throw("parse", << >>)
            [] resp.kind = "parsed" ->
                 LET parsed == [ called EXCEPT !.output = resp.value ]
                 IN /\ rp' = IF RepairAccepted(resp.value)
                             THEN [ parsed EXCEPT !.step = "update" ]
                             ELSE NextAttempt(parsed)
                    /\ error' = error
  /\ UNCHANGED << projectStatus, preRunStatus, pc, i, completedPhases,
                  planning_phases, queue, checklist, executions, checklistRuns >>
  /\ call' = AfterCall(rp'.step)
  /\ UNCHANGED << progress, parseFrame >>

\* completed_at: the rows completed so far, plus one
Now == Cardinality({ k \in 1..Len(planning_phases) :
                       planning_phases[k].status = "completed" }) + 1

\* faulty variant: the old entry is taken out and the re-run's result pushed
ReplaceResultAtEnd(phases, result) ==
  Append(SelectSeq(phases, LAMBDA p : p.phase_type # result.phase_type), result)

\* faulty variant: the re-run's result is pushed, the old one stays
ReplaceResultPush(phases, result) == Append(phases, result)

\* completedPhases[idx] = rerun when the type is present, push otherwise
ReplaceResult(phases, result) ==
  LET idx == { k \in 1..Len(phases) : phases[k].phase_type = result.phase_type }
  IN  IF idx = {} THEN Append(phases, result)
      ELSE LET first == CHOOSE k \in idx : \A m \in idx : k <= m
           IN  [ phases EXCEPT ![first] = result ]

\* faulty variant: the end of a revision loop rejects the run
AfterLoopAbort(loopPc, rest) ==
  IF rest # << >> THEN loopPc ELSE "rejected"

\* faulty variant: the critic is run again once the checklist's requests are
\* done, before its output is read
AfterLoopReCritic(loopPc, rest) ==
  IF rest # << >> THEN loopPc ELSE "reCritic"

\* where a for-of loop over revision requests goes once `rest` is left
AfterLoop(loopPc, rest) ==
  IF rest # << >> THEN loopPc
  ELSE IF loopPc = "autoFix" THEN "criticReview" ELSE "reCritic"

\* faulty variant: the critic is run once more after the composer's re-run
AfterRecomposeReCritic == "reCritic"

\* faulty variant: the critic's new output is read again after the composer's re-run
AfterRecomposeReview == "criticReview"

\* applyCriticRevisions ends with the composer's re-run: the critic's new
\* output is not read again
AfterRecompose == "finish"

\* the update of the row to completed and the caller's use of the result
PersistCompleted ==
  /\ rp.step = "update"
  /\ \E updateOk \in BOOLEAN :
       IF updateOk
       THEN LET row    == [ planning_phases[rp.recordId] EXCEPT
                              !.output = rp.output,
                              !.status = "completed",
                              !.model_used = provider,
                              !.completed_at = Now ]
                result == [ id |-> rp.recordId, phase_type |-> row.phase_type,
                            output |-> row.output, status |-> row.status,
                            model_used |-> row.model_used,
                            completed_at |-> row.completed_at ]
            IN /\ planning_phases' = [ planning_phases EXCEPT ![rp.recordId] = row ]
               /\ rp' = [ rp EXCEPT !.step = "idle" ]
               /\ error' = error
               /\ CASE pc = "firstPass" ->
                         /\ completedPhases' = Append(completedPhases, result)
                         /\ i' = i + 1
                         /\ pc' = IF i < NumPhases THEN "firstPass" ELSE "checklist"
                         /\ queue' = queue
                    [] pc \in LoopPcs ->
                         /\ completedPhases' = ReplaceResult(completedPhases, result)
                         /\ queue' = Tail(queue)
                         /\ pc' = AfterLoop(pc, Tail(queue))
                         /\ i' = i
                    [] pc = "reCritic" ->
                         /\ completedPhases' = ReplaceResult(completedPhases, result)
                         /\ pc' = "recompose"
                         /\ UNCHANGED << i, queue >>
                    [] pc = "recompose" ->
                         /\ completedPhases' = ReplaceResult(completedPhases, result)
                         /\ pc' = AfterRecompose
                         /\ UNCHANGED << i, queue >>
       ELSE /\ rp' = [ rp EXCEPT !.step = "catch" ]
            /\ Throw("update", << >>)
            /\ UNCHANGED << planning_phases, completedPhases, i, pc, queue >>
  /\ UNCHANGED << projectStatus, preRunStatus, checklist, executions, checklistRuns >>
  /\ UNCHANGED << progress, call, parseFrame >>

\* faulty variant: the catch block of runPhase swallows the error
RethrowMissing == "idle"

\* `throw error` at the end of the catch block of runPhase
Rethrow == "thrown"

\* the catch block of runPhase: mark the row failed, rethrow; the result of
\* the update is not read, so a store error leaves the row as it is
MarkFailed ==
  /\ rp.step = "catch"
  /\ \E markOk \in BOOLEAN :
       planning_phases' =
         IF markOk
         THEN [ planning_phases EXCEPT ![rp.recordId].status = "failed" ]
         ELSE planning_phases
  /\ rp' = [ IdleFrame EXCEPT !.step = Rethrow, !.phase = rp.phase ]
  /\ UNCHANGED << projectStatus, preRunStatus, pc, i, completedPhases, queue,
                  checklist, error, executions, checklistRuns >>
  /\ UNCHANGED << progress, call, parseFrame >>

\* ------------------------------------------------------------------------
\* runAllPhases: the callers of runPhase
\* ------------------------------------------------------------------------
\* the catch block of the first-pass loop
FirstPassCatch ==
  /\ pc = "firstPass"
  /\ rp.step = "thrown"
  /\ projectStatus' = "draft"
  /\ pc' = "rejected"
  /\ UNCHANGED << preRunStatus, i, completedPhases, planning_phases, queue,
                  checklist, rp, error, executions, checklistRuns >>
  /\ \E message \in Messages(error) :
       progress' = ErrorProgress(AGENT_PHASES[i], completedPhases, message)
  /\ UNCHANGED << call, parseFrame >>

\* applyQualityChecklist and applyCriticRevisions have no catch: the error
\* of runPhase leaves runAllPhases as it is
PostPassThrow ==
  /\ pc \in RunPcs \ { "firstPass" }
  /\ rp.step = "thrown"
  /\ pc' = "rejected"
  /\ UNCHANGED << projectStatus, preRunStatus, i, completedPhases,
                  planning_phases, queue, checklist, rp, error, executions, checklistRuns >>
  /\ UNCHANGED << progress, call, parseFrame >>

\* faulty variant: the evaluation writes the defaulted output back into each
\* result it reads
EvalChecklistWritesBack ==
  /\ pc = "checklist"
  /\ \E result \in { runQualityChecklist(completedPhases) } :
        /\ checklist' = result
        /\ checklistRuns' = checklistRuns + 1
        /\ IF result.status = "pass"
           THEN /\ pc' = "criticReview"
                /\ queue' = queue
           ELSE /\ pc' = AfterLoop("autoFix", result.targetedRevisions)
                /\ queue' = result.targetedRevisions
  /\ completedPhases' = [ k \in 1..Len(completedPhases) |->
                           [ completedPhases[k] EXCEPT !.output = EmptyOutput ] ]
  /\ UNCHANGED << projectStatus, preRunStatus, i,
                  planning_phases, rp, error, executions >>
  /\ UNCHANGED << progress, call, parseFrame >>

\* applyQualityChecklist up to its loop
EvalChecklist ==
  /\ pc = "checklist"
  /\ \E result \in { runQualityChecklist(completedPhases) } :
        /\ checklist' = result
        /\ checklistRuns' = checklistRuns + 1
        /\ IF result.status = "pass"
           THEN /\ pc' = "criticReview"
                /\ queue' = queue
           ELSE /\ pc' = AfterLoop("autoFix", result.targetedRevisions)
                /\ queue' = result.targetedRevisions
  /\ UNCHANGED << projectStatus, preRunStatus, i, completedPhases,
                  planning_phases, rp, error, executions >>
  /\ UNCHANGED << progress, call, parseFrame >>

\* if (!phase) continue, in either loop
SkipRevision ==
  /\ pc \in LoopPcs
  /\ rp.step = "idle"
  /\ queue # << >>
  /\ ~byType(Head(queue).phase)
  /\ queue' = Tail(queue)
  /\ pc' = AfterLoop(pc, Tail(queue))
  /\ UNCHANGED << projectStatus, preRunStatus, i, completedPhases,
                  planning_phases, checklist, rp, error, executions, checklistRuns >>
  /\ UNCHANGED << progress, call, parseFrame >>

\* Array.isArray(critic.output.revisionRequests) ? ... : []
revsOf(output) ==
  IF output.revisionRequestsIsArray THEN output.revisionRequests ELSE << >>

\* typeof critic.output.severityIndex === 'number' ? ... : 0
severityOf(output) ==
  IF output.severityIndexType = "number" THEN output.severityIndex ELSE 0

\* faulty variant: a severity at the threshold does not count
NeedsRevisionAbove(revs, severity) ==
  ~(Len(revs) = 0 /\ severity <= SeverityThreshold)

\* whether applyCriticRevisions goes on after reading the critic's output
NeedsRevision(revs, severity) == ~(Len(revs) = 0 /\ severity < SeverityThreshold)

\* applyCriticRevisions up to its loop
CriticReview ==
  /\ pc = "criticReview"
  /\ LET found == { k \in 1..Len(completedPhases) :
                      completedPhases[k].phase_type = "critic" }
     IN IF found = {}
        THEN /\ pc' = "finish"
             /\ queue' = queue
        ELSE LET critic == completedPhases[CHOOSE k \in found : \A m \in found : k <= m]
                 revs   == revsOf(critic.output)
             IN IF NeedsRevision(revs, severityOf(critic.output))
                \* a request of the critic is written as its targetPhase,
                \* which also stands for its text
                THEN /\ queue' = [ k \in 1..Len(revs) |-> Revision(revs[k], revs[k]) ]
                     /\ pc' = AfterLoop("targetedRerun", revs)
                ELSE /\ pc' = "finish"
                     /\ queue' = queue
  \* the ChecklistResult was a local of applyQualityChecklist, which returned
  /\ checklist' = NoChecklist
  /\ UNCHANGED << projectStatus, preRunStatus, i, completedPhases,
                  planning_phases, rp, error, executions, checklistRuns >>
  /\ UNCHANGED << progress, call, parseFrame >>

\* generatePrompts and the final update of the project (the rows of table
\* prompts are not part of this model)
FinishRun ==
  /\ pc = "finish"
  /\ projectStatus' = "completed"
  /\ pc' = "done"
  /\ UNCHANGED << preRunStatus, i, completedPhases, planning_phases, queue,
                  checklist, rp, error, executions, checklistRuns >>
  /\ progress' = CompletedProgress
  /\ UNCHANGED << call, parseFrame >>

Next ==
  \/ LoadProject
  \/ StartPhase
  \/ GenerateCall
  \/ RepairCall
  \/ PersistCompleted
  \/ MarkFailed
  \/ FirstPassCatch
  \/ PostPassThrow
  \/ EvalChecklist
  \/ SkipRevision
  \/ CriticReview
  \/ FinishRun

Spec == Init /\ [][Next]_vars

\* the run the application starts: handleProjectSubmit inserts the project
\* with status draft and calls runAllPhases on it
InitFresh == Init /\ projectStatus = "draft"

\* runAllPhases is one sequential async function: every store call settles
\* and every callAI call settles (a 60 s abort timer and 3 tries per call),
\* so a step that can be taken is taken
FairSpec == InitFresh /\ [][Next]_vars /\ WF_vars(Next)

TypeOK ==
  /\ pc \in { "callAI", "parse", "ledger", "ledgerDone", "load", "firstPass", "checklist", "autoFix", "criticReview",
              "targetedRerun", "reCritic", "recompose", "finish", "done",
              "rejected" }
  /\ rp.attempt \in 0..maxRetries

\* ------------------------------------------------------------------------
\* The ledger fold on its own: extractDecisionLedger applied to a bounded
\* collection of stage results
\* ------------------------------------------------------------------------
LedgerKeys == { "", "a", "b" }
LedgerValues == { "x", "y" }

LedgerOutputs ==
  { [ EmptyOutput EXCEPT !.valid = TRUE, !.errors = << >>, !.decisions = d ] :
      d \in SeqsUpTo({ Decision(k, v) : k \in LedgerKeys, v \in LedgerValues },
                     MaxDecisions) }

LedgerCollections ==
  { [ k \in 1..Len(outs) |->
        [ id |-> k, phase_type |-> AGENT_PHASES[k], output |-> outs[k],
          status |-> "completed", model_used |-> provider,
          completed_at |-> k ] ] :
      outs \in SeqsUpTo(LedgerOutputs, MaxPhases) }

InitLedger ==
  /\ completedPhases \in LedgerCollections
  /\ pc = "ledger"
  /\ projectStatus = "planning"
  /\ preRunStatus = "draft"
  /\ i = 1
  /\ planning_phases = << >>
  /\ queue = << >>
  /\ checklist = NoChecklist
  /\ rp = IdleFrame
  /\ error = NoError
  /\ executions = << >>
  /\ checklistRuns = 0
  /\ progress = NoProgress
  /\ call = IdleCall
  /\ parseFrame = IdleParse

\* contextData.decisionLedger = this.extractDecisionLedger(previousPhases)
FoldLedger ==
  /\ pc = "ledger"
  /\ rp' = [ rp EXCEPT !.decisionLedger = extractDecisionLedger(completedPhases) ]
  /\ pc' = "ledgerDone"
  /\ UNCHANGED << projectStatus, preRunStatus, i, completedPhases,
                  planning_phases, queue, checklist, error, executions, checklistRuns >>
  /\ UNCHANGED << progress, call, parseFrame >>

NextLedger == FoldLedger

SpecLedger == InitLedger /\ [][NextLedger]_vars

\* ------------------------------------------------------------------------
\* Helpers of the properties
\* ------------------------------------------------------------------------
\* the runPhase calls made in one state of the controller
Count(during) ==
  Cardinality({ k \in 1..Len(executions) : executions[k].during = during })

Rank(during) ==
  CASE during = "firstPass"     -> 1
    [] during = "autoFix"       -> 2
    [] during = "targetedRerun" -> 3
    [] during = "reCritic"      -> 4
    [] during = "recompose"     -> 5

\* a stage execution of the run has failed
StageFailed ==
  error.kind \in { "insert", "transport", "parse", "schema", "update" }

\* the critic's first-pass result: the first critic row of the store
CriticRows ==
  { k \in 1..Len(planning_phases) : planning_phases[k].phase_type = "critic" }

FirstCritic == planning_phases[CHOOSE k \in CriticRows : \A m \in CriticRows : k <= m]

FirstCriticTriggers ==
  /\ CriticRows # {}
  /\ FirstCritic.status = "completed"
  /\ \/ Len(FirstCritic.output.revisionRequests) > 0
     \/ FirstCritic.output.severityIndex >= 5

\* the critic result now in the in-memory collection
CurrentCritic == OutputByType(completedPhases, "critic")

\* ------------------------------------------------------------------------
\* Properties
\* ------------------------------------------------------------------------

\* C1: when the critic's first-pass output triggers revision (requests listed
\* or severity >= 0.5), the run makes exactly one TargetedRerun + ReCritic +
\* Recompose cycle and ends: the states of the controller are visited in
\* order, the critic and the composer are each re-run once, every request
\* naming a catalogue stage is served once, and the re-run critic's output
\* starts no second cycle.
C1_OneRevisionCycle ==
  /\ Count("reCritic") <= 1
  /\ Count("recompose") <= 1
  /\ \A a \in 1..(Len(executions) - 1) :
       Rank(executions[a].during) <= Rank(executions[a + 1].during)
  /\ (pc = "done" /\ FirstCriticTriggers) =>
       /\ Count("reCritic") = 1
       /\ Count("recompose") = 1
       /\ Count("targetedRerun") =
            Cardinality({ k \in 1..Len(FirstCritic.output.revisionRequests) :
                            FirstCritic.output.revisionRequests[k] \in PhaseTypes })

\* a finished run whose re-run critic still lists a request and whose
\* first-pass critic asked for a revision
C1_Witness ==
  /\ pc = "done"
  /\ FirstCriticTriggers
  /\ Count("targetedRerun") = 2
  /\ Len(CurrentCritic.revisionRequests) > 0

\* C2: every run that reaches Done has re-invoked the composer exactly once
\* in Recompose, also when the critic asked for nothing.
C2_AlwaysRecompose ==
  pc = "done" => Count("recompose") = 1

\* C3: once a stage execution has failed no further stage execution starts,
\* the error stays that of the failed stage (the last one started), and the
\* run can only go on to reject.
C3_AbortOnFailure ==
  [][ StageFailed =>
        /\ executions' = executions
        /\ error' = error
        /\ error.phase = executions[Len(executions)].phase
        /\ pc' \in { pc, "rejected" } ]_vars

\* a run rejected by a failure in TargetedRerun
C3_Witness ==
  /\ pc = "rejected"
  /\ StageFailed
  /\ executions[Len(executions)].during = "targetedRerun"

\* C4: after an abort on a stage failure the project's status is the one it
\* had before the run.
C4_StatusRestored ==
  (pc = "rejected" /\ error.kind \in { "transport", "parse", "schema" }) =>
    projectStatus = preRunStatus

\* C5: every row persisted as completed and every result of the in-memory
\* collection carries an output that passed validation.
C5_OnlyValidCompleted ==
  /\ \A k \in 1..Len(planning_phases) :
       planning_phases[k].status = "completed" =>
         validateJSON(planning_phases[k].output)
  /\ \A k \in 1..Len(completedPhases) :
       /\ completedPhases[k].status = "completed"
       /\ validateJSON(completedPhases[k].output)

\* a stage completed on its third attempt after two repair calls
C5_Witness ==
  /\ rp.step = "idle"
  /\ rp.recordId > 0
  /\ rp.repairCalls = 2
  /\ rp.attempt = 2
  /\ planning_phases[rp.recordId].status = "completed"

\* C6: one stage execution makes at most 3 primary calls and at most 2
\* repair calls; a repair call is pending only after a primary response that
\* parsed and failed validation, with attempts remaining, and at most one
\* repair call is made per attempt.
C6_CallBudget ==
  /\ rp.primaryCalls <= 3
  /\ rp.repairCalls <= 2
  /\ rp.primaryCalls + rp.repairCalls <= 5
  /\ rp.repairCalls <= rp.attempt + 1
  /\ rp.step = "repair" =>
       /\ rp.last = "invalid"
       /\ rp.attempt < 2
       /\ rp.repairCalls <= rp.attempt
       /\ rp.primaryCalls = rp.attempt + 1

\* an execution that used its whole budget: 3 primary and 2 repair calls
C6_Witness ==
  /\ rp.primaryCalls = 3
  /\ rp.repairCalls = 2

\* C7: the ledger given to a stage invocation holds, for every key, the
\* entry of the stage that completed most recently among those declaring it.
DeclaresKey(phase, key) ==
  \E m \in 1..Len(phase.output.decisions) : phase.output.decisions[m].key = key

LastValue(decisions, key) ==
  LET idx == { m \in 1..Len(decisions) : decisions[m].key = key }
  IN  decisions[CHOOSE m \in idx : \A n \in idx : n <= m].value

MostRecentValue(phases, key) ==
  LET idx == { k \in 1..Len(phases) : DeclaresKey(phases[k], key) }
      last == CHOOSE k \in idx :
                \A m \in idx : phases[m].completed_at <= phases[k].completed_at
  IN  LastValue(phases[last].output.decisions, key)

C7_LedgerByCompletionOrder ==
  rp.step \in { "generate", "repair", "update", "catch" } =>
    \A j \in 1..Len(rp.decisionLedger) :
      rp.decisionLedger[j].value =
        MostRecentValue(completedPhases, rp.decisionLedger[j].key)

\* C8: the folded ledger has at most one entry per key and an entry for
\* every non-empty key a stage of the collection declares.
C8_LedgerKeys ==
  pc = "ledgerDone" =>
    LET ledger == rp.decisionLedger
    IN /\ \A a, b \in 1..Len(ledger) : ledger[a].key = ledger[b].key => a = b
       /\ \A k \in 1..Len(completedPhases) :
            \A m \in 1..Len(completedPhases[k].output.decisions) :
              LET key == completedPhases[k].output.decisions[m].key
              IN  key # "" => \E a \in 1..Len(ledger) : ledger[a].key = key

\* a fold over two stages that declare the same key with different values
C8_Witness ==
  /\ pc = "ledgerDone"
  /\ Len(completedPhases) = 2
  /\ completedPhases[1].output.decisions = << Decision("a", "x") >>
  /\ completedPhases[2].output.decisions = << Decision("a", "y") >>

\* C9: the store holds at most one stage-result row per stage type.
C9_OneRowPerType ==
  \A a, b \in 1..Len(planning_phases) :
    planning_phases[a].phase_type = planning_phases[b].phase_type => a = b

\* C10: the checklist's status is fail exactly when one of its items has
\* passed = false.
C10_FailIffItemFailed ==
  checklist.status # "none" =>
    (checklist.status = "fail" <=>
       \E k \in 1..Len(checklist.items) : ~checklist.items[k].passed)

\* ------------------------------------------------------------------------
\* The guard of applyCriticRevisions on its own: the first steps of
\* applyCriticRevisions applied to a collection holding one critic result
\* whose two fields are of any JSON type
\* ------------------------------------------------------------------------
SeverityValues == { 0, SeverityThreshold - 1, SeverityThreshold,
                    SeverityThreshold + 1, 10 }

\* a number, a string spelling a number, or no severityIndex at all
SeverityFields ==
  { << v, t >> : v \in SeverityValues, t \in { "number", "string" } }
    \cup { << 0, "undefined" >> }

CriticFields ==
  { [ EmptyOutput EXCEPT !.valid = isArray /\ sev[2] = "number",
                         !.errors = IF isArray /\ sev[2] = "number"
                                    THEN << >>
                                    ELSE << "/ must match the critic schema" >>,
                         !.revisionRequests = r,
                         !.revisionRequestsIsArray = isArray,
                         !.severityIndex = sev[1],
                         !.severityIndexType = sev[2] ] :
      r \in SeqsUpTo(CriticTargets, MaxRevs), isArray \in BOOLEAN,
      sev \in SeverityFields }

InitGuard ==
  /\ completedPhases \in
       { << [ id |-> 1, phase_type |-> "critic", output |-> o,
              status |-> "completed", model_used |-> provider,
              completed_at |-> 1 ] >> : o \in CriticFields }
  /\ pc = "criticReview"
  /\ projectStatus = "planning"
  /\ preRunStatus = "draft"
  /\ i = 1
  /\ planning_phases = << >>
  /\ queue = << >>
  /\ checklist = NoChecklist
  /\ rp = IdleFrame
  /\ error = NoError
  /\ executions = << >>
  /\ checklistRuns = 0
  /\ progress = NoProgress
  /\ call = IdleCall
  /\ parseFrame = IdleParse

NextGuard == CriticReview

SpecGuard == InitGuard /\ [][NextGuard]_vars

\* ------------------------------------------------------------------------
\* Properties, continued
\* ------------------------------------------------------------------------
\* the stage types run in TargetedRerun, in order
TargetedPhases ==
  LET runs == SelectSeq(executions, LAMBDA e : e.during = "targetedRerun")
  IN  [ k \in 1..Len(runs) |-> runs[k].phase ]

\* a list without its repetitions, each entry at its first place
RECURSIVE FirstAppearances(_)
FirstAppearances(list) ==
  IF list = << >> THEN << >>
  ELSE LET before == FirstAppearances(SubSeq(list, 1, Len(list) - 1))
           x      == list[Len(list)]
       IN  IF \E k \in 1..Len(before) : before[k] = x THEN before
           ELSE Append(before, x)

IsPrefix(s, t) == Len(s) <= Len(t) /\ \A k \in 1..Len(s) : s[k] = t[k]

\* C11: in TargetedRerun each stage type named by the critic is re-executed
\* at most once, also when several requests name it, and the re-executions
\* follow the order in which the types first appear in the critic's list.
C11_RerunOncePerType ==
  (CriticRows # {} /\ ~StageFailed) =>
    IsPrefix(TargetedPhases,
             FirstAppearances(SelectSeq(FirstCritic.output.revisionRequests,
                                        LAMBDA t : t \in PhaseTypes)))

\* C12: after the guard of applyCriticRevisions, TargetedRerun and ReCritic
\* are entered exactly when the critic's list is an array with an entry or
\* its severity is a number >= 0.5; any other severity counts as 0, any
\* other list as empty.
C12_RevisionGuard ==
  pc \in { "targetedRerun", "reCritic", "finish" } =>
    LET o        == completedPhases[1].output
        listed   == o.revisionRequestsIsArray /\ Len(o.revisionRequests) > 0
        severity == o.severityIndexType = "number"
                      /\ o.severityIndex >= SeverityThreshold
    IN  /\ pc \in { "targetedRerun", "reCritic" } <=> (listed \/ severity)
        /\ pc = "targetedRerun" <=> listed
        /\ Len(queue) = IF listed THEN Len(o.revisionRequests) ELSE 0

\* an empty list with a severity of exactly 0.5 enters ReCritic
C12_Witness ==
  /\ pc = "reCritic"
  /\ completedPhases[1].output.revisionRequestsIsArray
  /\ completedPhases[1].output.revisionRequests = << >>
  /\ completedPhases[1].output.severityIndexType = "number"
  /\ completedPhases[1].output.severityIndex = SeverityThreshold

\* ------------------------------------------------------------------------
\* The checklist on its own: applyQualityChecklist's call of
\* runQualityChecklist on bounded collections of stage results
\* ------------------------------------------------------------------------
\* auth.choice is a free string: one naming neither backend, one each, both
AuthChoices == { "", "firebase", "local", "firebase local" }

Result(k, type, output) ==
  [ id |-> k, phase_type |-> type, output |-> output, status |-> "completed",
    model_used |-> provider, completed_at |-> k ]

ChecklistCollections ==
  LET valid == [ EmptyOutput EXCEPT !.valid = TRUE, !.errors = << >> ]
  IN { << Result(1, "competitor", [ valid EXCEPT !.hasCompetitorData = findings ]),
          Result(2, "strategy", [ valid EXCEPT !.decisions = << Decision("auth", "s1") >>,
                                               !.featuresMust = features,
                                               !.priorityMust = priority ]),
          Result(3, "ux", [ valid EXCEPT !.authChoice = choice ]),
          Result(4, "system", [ valid EXCEPT !.hasNonFunctional = TRUE,
                                             !.hasProvidersPolicies = TRUE ]),
          Result(5, "data", [ valid EXCEPT !.hasPwdHash = pwd,
                                           !.hasFirebaseUid = uid ]),
          Result(6, "api", CHOOSE o \in ValidOutputs("api") : TRUE),
          Result(7, "ui", [ valid EXCEPT !.hasMotion = motion,
                                         !.hasSkeletons = skeletons ]),
          Result(8, "prompts", CHOOSE o \in ValidOutputs("prompts") : TRUE) >> :
        choice \in AuthChoices, pwd \in BOOLEAN, uid \in BOOLEAN,
        motion \in BOOLEAN, skeletons \in BOOLEAN,
        findings \in BOOLEAN, features \in BOOLEAN, priority \in BOOLEAN }

InitChecklist ==
  /\ completedPhases \in ChecklistCollections
  /\ pc = "checklist"
  /\ projectStatus = "planning"
  /\ preRunStatus = "draft"
  /\ i = NumPhases + 1
  /\ planning_phases = << >>
  /\ queue = << >>
  /\ checklist = NoChecklist
  /\ rp = IdleFrame
  /\ error = NoError
  /\ executions = << >>
  /\ checklistRuns = 0
  /\ progress = NoProgress
  /\ call = IdleCall
  /\ parseFrame = IdleParse

NextChecklist == EvalChecklist

SpecChecklist == InitChecklist /\ [][NextChecklist]_vars

\* ------------------------------------------------------------------------
\* Properties, continued
\* ------------------------------------------------------------------------
ProcessingRows ==
  { k \in 1..Len(planning_phases) : planning_phases[k].status = "processing" }

\* runPhase is not running: it has not been called, has returned or has thrown
Settled == rp.step \in { "idle", "thrown" }

\* C13: an execution that failed after its row was created leaves the row
\* failed and the error with the caller; once runPhase has returned or
\* thrown, no row is in status processing.
C13_FailedRowMarked ==
  /\ (rp.step = "thrown"
        /\ error.kind \in { "transport", "parse", "schema", "update" }) =>
       /\ error.phase = rp.phase
       /\ planning_phases[Len(planning_phases)].phase_type = rp.phase
       /\ planning_phases[Len(planning_phases)].status = "failed"
  /\ Settled => ProcessingRows = {}

\* C14: an output that parses on the third attempt and fails validation
\* makes the stage fail with the schema error built from the validator's
\* error list for that output, and this error is unchanged from then on: it
\* is what runAllPhases rejects with.
C14_SchemaErrorCarried ==
  /\ [](rp.step = "catch" /\ rp.last = "invalid" =>
          /\ rp.attempt = maxRetries - 1
          /\ error.kind = "schema"
          /\ error.phase = rp.phase
          /\ error.errors = validationErrors(rp.output)
          /\ error.errors # << >>)
  /\ [](rp.step = "catch" /\ error.kind = "schema" => rp.last = "invalid")
  /\ [][error.kind = "schema" => error' = error]_vars

\* a run rejected with the error list of a final output that was no object
C14_Witness ==
  /\ pc = "rejected"
  /\ error.kind = "schema"
  /\ error.errors = << "/ must be object" >>

\* C15: an execution whose first generation call returned a valid output
\* made one generation call and no repair call, and its completed row
\* records an attempt count of 1.
C15_FirstCallCompletes ==
  /\ (rp.step = "update" /\ rp.attempt = 0 /\ rp.repairCalls = 0) =>
       rp.primaryCalls = 1 /\ rp.last = "valid"
  /\ (rp.step = "idle" /\ rp.recordId > 0 /\ rp.attempt = 0
        /\ rp.repairCalls = 0) =>
       /\ rp.primaryCalls = 1
       /\ planning_phases[rp.recordId].status = "completed"
       /\ "attempts" \in DOMAIN planning_phases[rp.recordId]
       /\ planning_phases[rp.recordId].attempts = 1

\* the run has failed: the project could not be loaded or a stage failed
RunFailed == error.kind # "none"

AutoFixPhases ==
  LET runs == SelectSeq(executions, LAMBDA e : e.during = "autoFix")
  IN  [ k \in 1..Len(runs) |-> runs[k].phase ]

PhasesOf(revisions) == [ k \in 1..Len(revisions) |-> revisions[k].phase ]

\* C17: the checklist is evaluated once per run, before any AutoFix re-run;
\* the stages run in AutoFix are those of the emitted requests, one run per
\* request and in their order, and none when the checklist passed.
C17_AutoFixOnce ==
  /\ checklistRuns <= 1
  /\ pc \in { "autoFix", "criticReview", "targetedRerun", "reCritic",
              "recompose", "finish", "done" } => checklistRuns = 1
  /\ pc \in { "load", "firstPass", "checklist" } =>
       checklistRuns = 0 /\ AutoFixPhases = << >>
  /\ pc = "autoFix" =>
       /\ checklist.status = "fail"
       /\ AutoFixPhases \o PhasesOf(IF rp.step = "idle" THEN queue ELSE Tail(queue))
            = PhasesOf(checklist.targetedRevisions)
  /\ pc = "criticReview" =>
       /\ AutoFixPhases = PhasesOf(checklist.targetedRevisions)
       /\ checklist.status = "pass" => AutoFixPhases = << >>

\* AutoFix done on a checklist that emitted two requests
C17_Witness ==
  /\ pc = "criticReview"
  /\ checklist.status = "fail"
  /\ Len(checklist.targetedRevisions) = 2
  /\ AutoFixPhases = << "system", "data" >>

\* the texts of revision requests that occur in a prompt: those held by the
\* outputs it prints
RequestTexts(prompt) ==
  UNION { { prompt.previous[k].output.revisionRequests[m] :
              m \in 1..Len(prompt.previous[k].output.revisionRequests) } :
          k \in 1..Len(prompt.previous) }

\* C18: the prompt of a stage re-run for a revision request holds the text
\* of that request.
C18_RequestInPrompt ==
  (pc \in LoopPcs /\ rp.step = "generate") =>
    Head(queue).request \in
      RequestTexts(buildContextualPrompt(rp.phase, contextData(completedPhases),
                                         completedPhases))

\* C19: a choice naming firebase with a users table that has password_hash
\* or lacks firebase_uid gives status fail and a request for the data
\* stage; so does a choice naming local with firebase_uid or without
\* password_hash; a choice naming neither passes the auth rule.
C19_AuthRule ==
  checklist.status # "none" =>
    LET choice   == OutputByType(completedPhases, "ux").authChoice
        data     == OutputByType(completedPhases, "data")
        flagged  == /\ checklist.status = "fail"
                    /\ \E k \in 1..Len(checklist.targetedRevisions) :
                         checklist.targetedRevisions[k].phase = "data"
    IN  /\ (IncludesFirebase(choice) /\ (data.hasPwdHash \/ ~data.hasFirebaseUid))
             => flagged
        /\ (IncludesLocal(choice) /\ (data.hasFirebaseUid \/ ~data.hasPwdHash))
             => flagged
        /\ (~IncludesFirebase(choice) /\ ~IncludesLocal(choice))
             => checklist.items[1].passed

\* C20: at most one row is in status processing, it is the row of the
\* runPhase call in progress, and a call starts only when no row is.
C20_OneExecutionAtATime ==
  /\ Cardinality(ProcessingRows) <= 1
  /\ rp.step \in { "generate", "repair", "update", "catch" } =>
       ProcessingRows = { rp.recordId }
  /\ CanCallRunPhase => ProcessingRows = {}

\* a re-run in progress in TargetedRerun, the only row in processing
C20_Witness ==
  /\ pc = "targetedRerun"
  /\ rp.step = "repair"
  /\ ProcessingRows = { rp.recordId }
  /\ rp.recordId > NumPhases

\* C21: in FirstPass the stages run in catalogue order, each once, and the
\* context of stage i holds the outputs of exactly the stages before it, all
\* completed, with the ledger folded from them.
C21_FirstPassInOrder ==
  /\ \A k \in 1..Len(executions) :
       executions[k].during = "firstPass" =>
         k <= NumPhases /\ executions[k].phase = AGENT_PHASES[k]
  /\ (pc \in { "checklist", "autoFix", "criticReview", "targetedRerun",
               "reCritic", "recompose", "finish", "done" }) =>
       Count("firstPass") = NumPhases
  /\ (pc = "firstPass" /\ rp.step \in { "generate", "repair", "update" }) =>
       /\ rp.phase = AGENT_PHASES[i]
       /\ TypesOf(completedPhases) = SubSeq(AGENT_PHASES, 1, i - 1)
       /\ \A k \in 1..Len(completedPhases) :
            /\ completedPhases[k].status = "completed"
            /\ planning_phases[k].status = "completed"
            /\ planning_phases[k].phase_type = AGENT_PHASES[k]
            /\ completedPhases[k].output = planning_phases[k].output
       /\ LET prompt == buildContextualPrompt(rp.phase,
                          contextData(completedPhases), completedPhases)
          IN  /\ Len(prompt.previous) = i - 1
              /\ \A k \in 1..(i - 1) :
                   /\ prompt.previous[k].phase_type = AGENT_PHASES[k]
                   /\ prompt.previous[k].output = planning_phases[k].output
              /\ DOMAIN prompt.context.priorArtifacts =
                   { AGENT_PHASES[k] : k \in 1..(i - 1) }
              /\ prompt.context.decisionLedger =
                   extractDecisionLedger(
                     [ k \in 1..(i - 1) |->
                         [ phase_type |-> AGENT_PHASES[k],
                           output |-> planning_phases[k].output ] ])
              /\ rp.decisionLedger = prompt.context.decisionLedger

\* the last stage of the catalogue is generating with a ledger that holds a
\* decision of an earlier stage
C21_Witness ==
  /\ pc = "firstPass"
  /\ i = NumPhases
  /\ rp.step = "generate"
  /\ rp.decisionLedger # << >>

\* a stage execution is in progress
StageRunning == rp.step \in { "generate", "repair", "update" }

\* the stage types whose execution has completed: the completed rows
CompletedTypes ==
  { planning_phases[k].phase_type :
      k \in { m \in 1..Len(planning_phases) :
                planning_phases[m].status = "completed" } }

\* C22: the observer is notified at every stage transition, those of
\* AutoFix, TargetedRerun, ReCritic and Recompose included: while a stage
\* execution is in progress the last notification names that stage and the
\* total stage count, and the completed list of every notification holds
\* only stage types whose execution has completed.
C22_NotifiedEveryTransition ==
  /\ StageRunning =>
       /\ progress.currentPhase = rp.phase
       /\ progress.totalPhases = NumPhases
  /\ \A k \in 1..Len(progress.completedPhases) :
       progress.completedPhases[k] \in CompletedTypes

\* C23: a run that fails on a stage execution, in whichever phase of the
\* run, is rejected with the observer notified of the error: the last
\* notification carries the message of the error in its error field.
C23_FailureNotified ==
  (pc = "rejected" /\ StageFailed) => progress.error \in Messages(error)

\* ------------------------------------------------------------------------
\* The tries of callAI: a call on its own with a retry count the caller
\* passes, and the calls runPhase makes for the first stage of a run
\* ------------------------------------------------------------------------
InitCall ==
  /\ projectStatus = "planning"
  /\ preRunStatus = "draft"
  /\ i = 1
  /\ completedPhases = << >>
  /\ queue = << >>
  /\ checklist = NoChecklist
  /\ error = NoError
  /\ checklistRuns = 0
  /\ parseFrame = IdleParse
  /\ \/ /\ pc = "callAI"
        /\ planning_phases = << >>
        /\ rp = IdleFrame
        /\ executions = << >>
        /\ progress = NoProgress
        /\ call \in { StartCall(Retries(n), env) :
                        n \in 0..MaxCallRetries, env \in BOOLEAN }
     \/ /\ pc = "firstPass"
        /\ planning_phases =
             << [ phase_type |-> AGENT_PHASES[1], status |-> "processing",
                  output |-> EmptyOutput, model_used |-> "",
                  completed_at |-> 0 ] >>
        /\ rp = [ IdleFrame EXCEPT !.step = "generate",
                                   !.phase = AGENT_PHASES[1],
                                   !.recordId = 1 ]
        /\ executions = << [ phase |-> AGENT_PHASES[1], during |-> "firstPass" ] >>
        /\ progress = StageProgress(AGENT_PHASES[1], << >>)
        /\ call \in { StartCall(NoRetries, env) : env \in BOOLEAN }

NextCall ==
  \/ EnterCall
  \/ SendRequest
  \/ TimePasses
  \/ AbortFires
  \/ FetchRejects
  \/ HeadersArrive
  \/ BodyArrives
  \/ BodyFails
  \/ Wake
  \/ ThrowAfterLoop
  \/ GenerateCall
  \/ RepairCall

SpecCall == InitCall /\ [][NextCall]_vars

\* a try of callAI is awaiting the response or its body
Awaiting == call.step \in { "fetch", "json", "text" }

\* C24: every generation call is bounded by its timeout: a try whose
\* response has not been received in full when timeoutMs has elapsed is
\* cancelled, so no try is still awaited past its timeout.
C24_CallBoundedByTimeout ==
  (Awaiting /\ rp.step \in { "generate", "repair" }) => call.clock # "past"

\* the smaller of two numbers
Min(a, b) == IF a <= b THEN a ELSE b

\* a callAI call of runPhase is followed through its tries
StageCall == call.step # "idle" /\ ~call.retries.given

\* C28: a transport or timeout failure is retried inside the attempt slot
\* and consumes no attempt of the stage: a generation call makes at most 3
\* tries, returns on the first that succeeds, sleeps between tries only
\* (not after the last), and when all its tries fail the stage fails with
\* the error of the last try.
C28_TriesInsideTheSlot ==
  /\ [](StageCall =>
          /\ call.tries <= 3
          /\ call.failed = IF Awaiting \/ call.step = "returned"
                           THEN call.tries - 1 ELSE call.tries
          /\ Len(call.delays) = Min(call.failed, 2)
          /\ call.step = "sleep" => call.failed < 3
          /\ (call.step = "thrown" /\ call.env) =>
               /\ call.tries = 3
               /\ call.failed = 3
               /\ call.lastError = call.tryError
               /\ call.lastError \in { "timeout", "network", "proxy", "body" })
  /\ [][ StageCall =>
           /\ (call'.step # "idle" /\ call'.tries > call.tries) => rp' = rp
           /\ call'.failed > call.failed => rp' = rp
           /\ call.step \in { "returned", "thrown" } =>
                call'.step \in { "returned", "thrown", "entry", "idle" }
           /\ (call.step = "thrown" /\ rp' # rp) =>
                /\ rp'.step = "catch"
                /\ rp'.attempt = rp.attempt
                /\ error'.kind = "transport"
           /\ (call.step = "returned" /\ rp' # rp) =>
                error'.kind # "transport" ]_vars

\* the third try of the primary call of the stage's second attempt failed:
\* the call throws
C28_Witness ==
  /\ StageCall
  /\ call.step = "thrown"
  /\ call.failed = 3
  /\ rp.step = "generate"
  /\ rp.attempt = 1

\* C29: backoff delays follow transport and timeout failures only: a delay
\* is slept right after a try of callAI failed and nowhere else, and the
\* call that follows a parse failure or a schema failure (the repair call
\* or the next attempt's primary call) starts with no delay.
C29_BackoffOnlyAfterTransportFailure ==
  /\ [](call.step = "sleep" =>
          /\ call.tryError \in { "timeout", "network", "proxy", "body" }
          /\ Len(call.delays) = call.failed)
  /\ [][ /\ Len(call'.delays) > Len(call.delays) =>
              /\ Awaiting
              /\ call'.step = "sleep"
              /\ call'.failed = call.failed + 1
              /\ rp' = rp
         /\ (StageCall /\ rp' # rp /\ rp'.step \in { "generate", "repair" }) =>
              /\ call.step = "returned"
              /\ call'.step = "entry"
              /\ call'.delays = << >> ]_vars

\* the primary call of the second attempt sleeps after a failed try: the
\* first attempt ended on text that did not parse or on a schema failure
C29_Witness ==
  /\ StageCall
  /\ rp.step = "generate"
  /\ rp.attempt = 1
  /\ call.step = "sleep"

\* C30: for every retry count a caller configures, the delay before the
\* k-th retry of a call grows exponentially in k up to a fixed cap, plus a
\* bounded jitter.
C30_CappedExponentialBackoff ==
  \E cap \in 1..(BackoffStepMs * (2 ^ MaxCallRetries)) :
    \A k \in 1..Len(call.delays) :
      call.delays[k] - Min(BackoffStepMs * (2 ^ (k - 1)), cap) \in 0..(JitterMs - 1)

\* C26: a response that does not parse consumes one attempt and is not used
\* again.  A repair call is made only for a primary response that parsed; a
\* primary response that does not parse leads to the next attempt's primary
\* call while attempts remain and fails the stage with the error of the
\* exhausted attempts on the last attempt; a repair response that does not
\* parse never fails the stage and leads to the next attempt's primary call.
C26_UnparseableConsumesAttempt ==
  /\ [](rp.step = "repair" =>
          /\ rp.last = "invalid"
          /\ rp.output \in InvalidOutputs
          /\ rp.attempt < maxRetries - 1
          /\ rp.primaryCalls = rp.attempt + 1
          /\ rp.repairCalls <= rp.attempt)
  /\ [](rp.step = "generate" =>
          /\ rp.attempt < maxRetries
          /\ rp.primaryCalls = rp.attempt
          /\ rp.output = EmptyOutput)
  /\ [][ /\ (rp.step = "generate" /\ rp'.step = "generate" /\ rp' # rp) =>
              /\ rp.attempt < maxRetries - 1
              /\ rp'.attempt = rp.attempt + 1
              /\ rp'.repairCalls = rp.repairCalls
              /\ error' = error
         /\ (rp.step = "generate" /\ rp'.step = "catch") =>
              /\ rp'.last = "unparseable" <=> error'.kind = "parse"
              /\ error'.kind = "parse" => rp.attempt = maxRetries - 1
         /\ (rp.step = "generate" /\ rp' # rp) =>
              rp'.step \in { "generate", "repair", "update", "catch" }
         /\ (rp.step = "repair" /\ rp' # rp) =>
              /\ rp'.step \in { "generate", "update", "catch" }
              /\ rp'.step = "catch" => error'.kind = "transport"
              /\ rp'.step = "generate" =>
                   /\ rp'.attempt = rp.attempt + 1
                   /\ error' = error ]_vars

\* the stage failed on a third primary response that did not parse, after
\* two attempts that each made a repair call
C26_Witness ==
  /\ rp.step = "catch"
  /\ error.kind = "parse"
  /\ rp.last = "unparseable"
  /\ rp.primaryCalls = 3
  /\ rp.repairCalls = 2

\* the raw outputs a repair prompt quotes
RawOutputsIn(prompt) ==
  IF "originalResponse" \in DOMAIN prompt THEN { prompt.originalResponse }
  ELSE { }

\* C27: the prompt of every repair call holds the raw output that failed
\* validation, the validation errors of that output and the schema of the
\* stage, and the repair call's temperature is below the primary call's.
C27_RepairPrompt ==
  rp.step = "repair" =>
    LET prompt == buildRepairPrompt(rp.output, validationErrors(rp.output),
                                    rp.phase)
    IN  /\ prompt.errors = validationErrors(rp.output)
        /\ prompt.schema = rp.phase
        /\ RepairTemperature < PrimaryTemperature
        /\ rp.output \in RawOutputsIn(prompt)

\* ------------------------------------------------------------------------
\* parseJSONResponse (src/src/lib/ai-client.ts) on bounded texts.  A text is
\* a sequence of characters; a JSON value is written as its JSON text
\* without insignificant white space
\* ------------------------------------------------------------------------
\* the double quote; the backtick and U+201C (one of the quotes
\* normalizeQuotes replaces), written by their code points
DQ == "\""
BT == "U+0060"
LDQ == "U+201C"

\* the characters of the texts: the quote, the brackets, a letter, a space,
\* the backtick and a curly quote.  No text holds a comma, a colon, a
\* backslash, a digit or a literal, so the JSON texts among them are the
\* strings, {} and the arrays of at most one element
Alphabet == { DQ, "{", "}", "[", "]", "a", " ", BT, LDQ }

Texts == SeqsUpTo(Alphabet, MaxText)

RECURSIVE trimStart(_)
trimStart(s) ==
  IF s = << >> \/ Head(s) # " " THEN s ELSE trimStart(Tail(s))

RECURSIVE trimEnd(_)
trimEnd(s) ==
  IF s = << >> \/ s[Len(s)] # " " THEN s ELSE trimEnd(SubSeq(s, 1, Len(s) - 1))

trim(s) == trimEnd(trimStart(s))

startsWith(s, prefix) ==
  Len(s) >= Len(prefix) /\ SubSeq(s, 1, Len(prefix)) = prefix

endsWith(s, suffix) ==
  Len(s) >= Len(suffix) /\ SubSeq(s, Len(s) - Len(suffix) + 1, Len(s)) = suffix

Fence == << BT, BT, BT >>
FenceJson == Fence \o << "j", "s", "o", "n" >>

\* the trim and the removal of the code fences
Cleaned(response) ==
  LET trimmed  == trim(response)
      unfenced == IF startsWith(trimmed, FenceJson)
                  THEN SubSeq(trimmed, Len(FenceJson) + 1, Len(trimmed))
                  ELSE IF startsWith(trimmed, Fence)
                  THEN SubSeq(trimmed, Len(Fence) + 1, Len(trimmed))
                  ELSE trimmed
      open     == IF endsWith(unfenced, Fence)
                  THEN SubSeq(unfenced, 1, Len(unfenced) - Len(Fence))
                  ELSE unfenced
  IN  trim(open)

RECURSIVE SkipWs(_, _)
SkipWs(s, pos) ==
  IF pos <= Len(s) /\ s[pos] = " " THEN SkipWs(s, pos + 1) ELSE pos

NoValue == [ ok |-> FALSE, next |-> 0, value |-> << >> ]

\* JSON.parse, one value from position pos on: a string, {} or an array
RECURSIVE ParseValue(_, _)
ParseValue(s, from) ==
  LET pos == SkipWs(s, from)
  IN  IF pos > Len(s) THEN NoValue
      ELSE CASE s[pos] = DQ ->
                  LET closing == { q \in (pos + 1)..Len(s) : s[q] = DQ }
                  IN  IF closing = { } THEN NoValue
                      ELSE LET q == CHOOSE q \in closing : \A m \in closing : q <= m
                           IN  [ ok |-> TRUE, next |-> q + 1,
                                 value |-> SubSeq(s, pos, q) ]
             [] s[pos] = "{" ->
                  LET close == SkipWs(s, pos + 1)
                  IN  IF close <= Len(s) /\ s[close] = "}"
                      THEN [ ok |-> TRUE, next |-> close + 1,
                             value |-> << "{", "}" >> ]
                      ELSE NoValue
             [] s[pos] = "[" ->
                  LET first == SkipWs(s, pos + 1)
                  IN  IF first <= Len(s) /\ s[first] = "]"
                      THEN [ ok |-> TRUE, next |-> first + 1,
                             value |-> << "[", "]" >> ]
                      ELSE LET item  == ParseValue(s, first)
                               close == SkipWs(s, item.next)
                           IN  IF item.ok /\ close <= Len(s) /\ s[close] = "]"
                               THEN [ ok |-> TRUE, next |-> close + 1,
                                      value |-> << "[" >> \o item.value \o << "]" >> ]
                               ELSE NoValue
             [] OTHER -> NoValue

\* JSON.parse(s): the value, or a SyntaxError
JSONparse(s) ==
  LET r == ParseValue(s, 1)
  IN  IF r.ok /\ SkipWs(s, r.next) > Len(s)
      THEN [ ok |-> TRUE, value |-> r.value ]
      ELSE [ ok |-> FALSE, value |-> << >> ]

\* s.indexOf(c), 1-based; 0 when absent
indexOf(s, c) ==
  LET at == { k \in 1..Len(s) : s[k] = c }
  IN  IF at = { } THEN 0 ELSE CHOOSE k \in at : \A m \in at : k <= m

findFirstOf(s, chars) ==
  LET found == { indexOf(s, chars[k]) : k \in 1..Len(chars) } \ { 0 }
  IN  IF found = { } THEN 0 ELSE CHOOSE k \in found : \A m \in found : k <= m

\* faulty variant: the slice stops before the closing bracket
SliceEndBefore(k) == k - 1

\* s.slice(startIdx, i + 1) ends with the character at i
SliceEnd(k) == k

\* faulty variant: a backslash inside a string is an ordinary character
RECURSIVE ScanBlockNoEscape(_, _, _, _, _, _)
ScanBlockNoEscape(s, k, depth, inString, escape, startIdx) ==
  LET openChar  == s[startIdx]
      closeChar == IF openChar = "{" THEN "}" ELSE "]"
  IN  IF k > Len(s) THEN 0
      ELSE IF inString
      THEN IF s[k] = DQ THEN ScanBlockNoEscape(s, k + 1, depth, FALSE, FALSE, startIdx)
           ELSE ScanBlockNoEscape(s, k + 1, depth, TRUE, FALSE, startIdx)
      ELSE IF s[k] = DQ THEN ScanBlockNoEscape(s, k + 1, depth, TRUE, FALSE, startIdx)
      ELSE LET opened == IF s[k] = openChar THEN depth + 1 ELSE depth
               closed == IF s[k] = closeChar THEN opened - 1 ELSE opened
           IN  IF closed = 0 THEN k
               ELSE ScanBlockNoEscape(s, k + 1, closed, FALSE, FALSE, startIdx)

\* the loop of extractFirstJsonBlock from position k on: the position of the
\* bracket that brings depth back to 0, or 0
RECURSIVE ScanBlock(_, _, _, _, _, _)
ScanBlock(s, k, depth, inString, escape, startIdx) ==
  LET openChar  == s[startIdx]
      closeChar == IF openChar = "{" THEN "}" ELSE "]"
  IN  IF k > Len(s) THEN 0
      ELSE IF inString
      THEN IF escape THEN ScanBlock(s, k + 1, depth, TRUE, FALSE, startIdx)
           ELSE IF s[k] = "\\" THEN ScanBlock(s, k + 1, depth, TRUE, TRUE, startIdx)
           ELSE IF s[k] = DQ THEN ScanBlock(s, k + 1, depth, FALSE, FALSE, startIdx)
           ELSE ScanBlock(s, k + 1, depth, TRUE, FALSE, startIdx)
      ELSE IF s[k] = DQ THEN ScanBlock(s, k + 1, depth, TRUE, FALSE, startIdx)
      ELSE LET opened == IF s[k] = openChar THEN depth + 1 ELSE depth
               closed == IF s[k] = closeChar THEN opened - 1 ELSE opened
           IN  IF closed = 0 THEN k
               ELSE ScanBlock(s, k + 1, closed, FALSE, FALSE, startIdx)

\* the first balanced block of s, or null
extractFirstJsonBlock(s) ==
  LET startIdx == findFirstOf(s, << "{", "[" >>)
  IN  IF startIdx = 0 THEN [ found |-> FALSE, text |-> << >> ]
      ELSE LET end == ScanBlock(s, startIdx, 0, FALSE, FALSE, startIdx)
           IN  IF end = 0 THEN [ found |-> FALSE, text |-> << >> ]
               ELSE [ found |-> TRUE,
                      text |-> trim(SubSeq(s, startIdx, SliceEnd(end))) ]

normalizeQuotes(s) == [ k \in 1..Len(s) |-> IF s[k] = LDQ THEN DQ ELSE s[k] ]

\* the value parseJSONResponse returns, or the SyntaxError it throws
parseJSONResponse(response) ==
  LET cleaned   == Cleaned(response)
      fast      == JSONparse(cleaned)
      extracted == extractFirstJsonBlock(cleaned)
  IN  IF fast.ok THEN fast
      ELSE IF extracted.found /\ extracted.text # << >>
      THEN IF JSONparse(extracted.text).ok THEN JSONparse(extracted.text)
           ELSE JSONparse(normalizeQuotes(extracted.text))
      ELSE JSONparse(normalizeQuotes(cleaned))

InitParse ==
  /\ parseFrame \in { [ step |-> "call", text |-> t, ok |-> FALSE,
                        value |-> << >> ] : t \in Texts }
  /\ pc = "parse"
  /\ projectStatus = "planning"
  /\ preRunStatus = "draft"
  /\ i = 1
  /\ completedPhases = << >>
  /\ planning_phases = << >>
  /\ queue = << >>
  /\ checklist = NoChecklist
  /\ rp = IdleFrame
  /\ error = NoError
  /\ executions = << >>
  /\ checklistRuns = 0
  /\ progress = NoProgress
  /\ call = IdleCall

\* output = parseJSONResponse(response.content)
ParseResponse ==
  /\ parseFrame.step = "call"
  /\ \E r \in { parseJSONResponse(parseFrame.text) } :
       parseFrame' = [ parseFrame EXCEPT
                         !.step = IF r.ok THEN "returned" ELSE "thrown",
                         !.ok = r.ok,
                         !.value = r.value ]
  /\ UNCHANGED << projectStatus, preRunStatus, pc, i, completedPhases,
                  planning_phases, queue, checklist, rp, error, executions,
                  checklistRuns, progress, call >>

NextParse == ParseResponse

SpecParse == InitParse /\ [][NextParse]_vars

\* the places of a text where it reads: a prefix without { and [, one JSON
\* object or array, a suffix
JsonSpans(text) ==
  { span \in (1..Len(text)) \X (1..Len(text)) :
      /\ span[1] <= span[2]
      /\ \A k \in 1..(span[1] - 1) : text[k] \notin { "{", "[" }
      /\ text[span[1]] \in { "{", "[" }
      /\ text[span[2]] \in { "}", "]" }
      /\ JSONparse(SubSeq(text, span[1], span[2])).ok }

ParseSettled == parseFrame.step \in { "returned", "thrown" }

\* the error is thrown only when no recovery step gave a value
ThrownOnlyWhenNoStepParses ==
  parseFrame.step = "thrown" =>
    LET cleaned   == Cleaned(parseFrame.text)
        extracted == extractFirstJsonBlock(cleaned)
    IN  /\ ~JSONparse(cleaned).ok
        /\ extracted.found =>
             /\ ~JSONparse(extracted.text).ok
             /\ ~JSONparse(normalizeQuotes(extracted.text)).ok
        /\ ~extracted.found => ~JSONparse(normalizeQuotes(cleaned)).ok

\* C25: for every text made of a prefix without { and [, one valid JSON
\* object or array and any suffix, parseJSONResponse returns that JSON
\* value; it throws only when none of its recovery steps gives a value.
C25_ParserRoundTrip ==
  ParseSettled =>
    /\ \A span \in JsonSpans(parseFrame.text) :
         /\ parseFrame.ok
         /\ parseFrame.value =
              JSONparse(SubSeq(parseFrame.text, span[1], span[2])).value
    /\ ThrownOnlyWhenNoStepParses

\* C25 as amended: the same, for the texts that are not a JSON text as a
\* whole once trimmed and freed of their fences; a text that is one parses
\* to the value of the whole text.
C25_ParserRoundTripUnlessWhole ==
  ParseSettled =>
    /\ \A span \in JsonSpans(parseFrame.text) :
         /\ parseFrame.ok
         /\ parseFrame.value =
              IF JSONparse(Cleaned(parseFrame.text)).ok
              THEN JSONparse(Cleaned(parseFrame.text)).value
              ELSE JSONparse(SubSeq(parseFrame.text, span[1], span[2])).value
    /\ ThrownOnlyWhenNoStepParses

\* a text with prose before and after an array, which is not a JSON text as
\* a whole: the array was extracted and returned
C25_Witness ==
  /\ parseFrame.step = "returned"
  /\ \E span \in JsonSpans(parseFrame.text) :
       /\ span[1] > 1
       /\ span[2] < Len(parseFrame.text)
       /\ parseFrame.value = << "[", "]" >>
  /\ ~JSONparse(Cleaned(parseFrame.text)).ok

\* the rows of a stage type that were completed, in the order of the store
CompletedRowsOf(type) ==
  { k \in 1..Len(planning_phases) :
      /\ planning_phases[k].phase_type = type
      /\ planning_phases[k].status = "completed" }

\* the current result of a stage type: its row completed last
CurrentRowOf(type) ==
  planning_phases[CHOOSE k \in CompletedRowsOf(type) :
                    \A m \in CompletedRowsOf(type) : m <= k]

\* C31: at every stage invocation, first pass or re-run, the ledger in the
\* prompt is the fold of the result collection as it then is, and each of
\* its entries stems from the current result of some stage type: a result
\* that a re-run replaced contributes nothing.
C31_LedgerFoldedFresh ==
  StageRunning =>
    /\ rp.decisionLedger = extractDecisionLedger(completedPhases)
    /\ contextData(completedPhases).decisionLedger = rp.decisionLedger
    /\ \A k \in 1..Len(rp.decisionLedger) :
         \E type \in PhaseTypes :
           /\ CompletedRowsOf(type) # { }
           /\ \E j \in 1..Len(CurrentRowOf(type).output.decisions) :
                CurrentRowOf(type).output.decisions[j] = rp.decisionLedger[k]

\* the critic is re-run after AutoFix replaced a system result that declared
\* a decision by one that declares none: the ledger holds the strategy's
\* entry for the key again
C31_Witness ==
  /\ StageRunning
  /\ pc = "reCritic"
  /\ Cardinality(CompletedRowsOf("system")) = 2
  /\ \E k \in CompletedRowsOf("system") :
       planning_phases[k].output.decisions = << Decision("auth", "y1") >>
  /\ CurrentRowOf("system").output.decisions = << >>
  /\ rp.decisionLedger = << Decision("auth", "s1") >>


MaxSpanText == 5

SpanAlphabet == { DQ, "\\", "{", "}", "[", "]" }

SpanTexts == SeqsUpTo(SpanAlphabet, MaxSpanText)

InitExtract ==
  /\ parseFrame \in { [ step |-> "extract", text |-> t, ok |-> FALSE,
                        value |-> << >> ] : t \in SpanTexts }
  /\ pc = "parse"
  /\ projectStatus = "planning"
  /\ preRunStatus = "draft"
  /\ i = 1
  /\ completedPhases = << >>
  /\ planning_phases = << >>
  /\ queue = << >>
  /\ checklist = NoChecklist
  /\ rp = IdleFrame
  /\ error = NoError
  /\ executions = << >>
  /\ checklistRuns = 0
  /\ progress = NoProgress
  /\ call = IdleCall

\* const extracted = extractFirstJsonBlock(cleaned)
ExtractBlock ==
  /\ parseFrame.step = "extract"
  /\ \E r \in { extractFirstJsonBlock(parseFrame.text) } :
       parseFrame' = [ parseFrame EXCEPT
                         !.step = IF r.found THEN "span" ELSE "null",
                         !.ok = r.found,
                         !.value = r.text ]
  /\ UNCHANGED << projectStatus, preRunStatus, pc, i, completedPhases,
                  planning_phases, queue, checklist, rp, error, executions,
                  checklistRuns, progress, call >>

NextExtract == ExtractBlock

SpecExtract == InitExtract /\ [][NextExtract]_vars

\* where the reader stands after the characters start..k of s: outside a
\* string, inside one, or inside one right after a backslash
RECURSIVE QuoteMode(_, _, _)
QuoteMode(s, start, k) ==
  IF k < start THEN "outside"
  ELSE LET before == QuoteMode(s, start, k - 1)
       IN  CASE before = "outside" -> IF s[k] = DQ THEN "string" ELSE "outside"
             [] before = "string" -> IF s[k] = "\\" THEN "escaped"
                                     ELSE IF s[k] = DQ THEN "outside"
                                     ELSE "string"
             [] before = "escaped" -> "string"

\* the positions start..k that hold character c outside every string
UnquotedAt(s, start, k, c) ==
  { m \in start..k : s[m] = c /\ QuoteMode(s, start, m - 1) = "outside" }

\* unquoted brackets of the opening kind minus those of the closing kind,
\* over the positions start..k
Balance(s, start, k) ==
  LET close == IF s[start] = "{" THEN "}" ELSE "]"
  IN  Cardinality(UnquotedAt(s, start, k, s[start]))
        - Cardinality(UnquotedAt(s, start, k, close))

FirstBracket(s) ==
  LET at == { k \in 1..Len(s) : s[k] \in { "{", "[" } }
  IN  IF at = { } THEN 0 ELSE CHOOSE k \in at : \A m \in at : k <= m

BalancedAt(s) ==
  IF FirstBracket(s) = 0 THEN { }
  ELSE { k \in (FirstBracket(s) + 1)..Len(s) : Balance(s, FirstBracket(s), k) = 0 }

\* C33: the extracted span starts at the first { or [ of the text and ends
\* at the first later position where the unquoted brackets of the opening
\* kind and of its closing kind balance, a backslash-escaped quote not
\* ending a string; there is no span when they never balance.
C33_SpanIsFirstBalancedBlock ==
  parseFrame.step \in { "span", "null" } =>
    LET s == parseFrame.text
    IN  IF BalancedAt(s) = { }
        THEN parseFrame.step = "null"
        ELSE /\ parseFrame.step = "span"
             /\ \E end \in BalancedAt(s) :
                  /\ \A m \in BalancedAt(s) : end <= m
                  /\ parseFrame.value = SubSeq(s, FirstBracket(s), end)

\* [ "\" ] : the quote after the backslash does not end the string, so the
\* bracket after it is inside the string and no span is returned
C33_Witness ==
  /\ parseFrame.text = << "[", DQ, "\\", DQ, "]" >>
  /\ parseFrame.step = "null"
  /\ QuoteMode(parseFrame.text, 1, 4) = "string"


\* ------------------------------------------------------------------------
\* Study of validateJSON: values checked against a cut of the strategy
\* schema, its root object and its priorityMatrix.  A string built by a
\* template is written as the sequence of its pieces
\* ------------------------------------------------------------------------
\* the schema of the strategy stage, three of its eight required properties
StrategySchema ==
  [ type     |-> "object",
    required |-> << "problem", "priorityMatrix", "decisions" >>,
    nested   |-> "priorityMatrix",
    nestedSchema |-> [ type     |-> "object",
                       required |-> << "must", "should", "could", "wont" >> ] ]

Range(seq) == { seq[k] : k \in 1..Len(seq) }

\* the parsed values: an array, or an object holding some of the required
\* properties, its priorityMatrix an array or an object holding some of its
Docs ==
  { [ type |-> "array", has |-> { }, nestedType |-> "absent", nestedHas |-> { } ] }
  \cup
  { [ type |-> "object", has |-> has, nestedType |-> "absent", nestedHas |-> { } ] :
      has \in SUBSET (Range(StrategySchema.required) \ { StrategySchema.nested }) }
  \cup
  { [ type |-> "object", has |-> has \cup { StrategySchema.nested },
      nestedType |-> "array", nestedHas |-> { } ] :
      has \in SUBSET (Range(StrategySchema.required) \ { StrategySchema.nested }) }
  \cup
  { [ type |-> "object", has |-> has \cup { StrategySchema.nested },
      nestedType |-> "object", nestedHas |-> nestedHas ] :
      has \in SUBSET (Range(StrategySchema.required) \ { StrategySchema.nested }),
      nestedHas \in SUBSET Range(StrategySchema.nestedSchema.required) }

\* the error objects of Ajv
TypeError(path) ==
  [ instancePath |-> path, message |-> << "must be object" >> ]

RequiredError(path, name) ==
  [ instancePath |-> path,
    message |-> << "must have required property '", name, "'" >> ]

\* the errors of keyword required, in the order of its list
RECURSIVE RequiredErrors(_, _, _)
RequiredErrors(path, required, has) ==
  IF required = << >> THEN << >>
  ELSE (IF Head(required) \in has THEN << >>
        ELSE << RequiredError(path, Head(required)) >>)
       \o RequiredErrors(path, Tail(required), has)

\* validate.errors after validate(data), allErrors set: every error of the
\* value, null when there is none
AjvErrors(data, schema) ==
  LET errors ==
        IF data.type # schema.type THEN << TypeError("") >>
        ELSE RequiredErrors("", schema.required, data.has)
             \o (CASE data.nestedType = "absent" -> << >>
                   [] data.nestedType # schema.nestedSchema.type ->
                        << TypeError("/" \o schema.nested) >>
                   [] OTHER ->
                        RequiredErrors("/" \o schema.nested,
                                       schema.nestedSchema.required,
                                       data.nestedHas))
  IN  [ valid |-> errors = << >>, isNull |-> errors = << >>, errors |-> errors ]

\* faulty variant: the instance path is written as it is, empty for the root
ErrorTextBarePath(err) == << err.instancePath, " " >> \o err.message

\* `${err.instancePath || '/'} ${err.message}`
ErrorText(err) ==
  << IF err.instancePath = "" THEN "/" ELSE err.instancePath, " " >> \o err.message

\* what validateJSON returns
validateJSONResult(data, schema) ==
  LET validate == AjvErrors(data, schema)
  IN  IF ~validate.valid /\ ~validate.isNull
      THEN [ valid  |-> FALSE,
             errors |-> [ k \in 1..Len(validate.errors) |->
                            ErrorText(validate.errors[k]) ] ]
      ELSE [ valid |-> TRUE, errors |-> << >> ]

NoValidation == [ valid |-> FALSE, errors |-> << >> ]

InitValidate ==
  /\ rp \in { [ step |-> "validate", phase |-> "strategy", output |-> doc,
                validation |-> NoValidation ] : doc \in Docs }
  /\ pc = "firstPass"
  /\ projectStatus = "planning"
  /\ preRunStatus = "draft"
  /\ i = 2
  /\ completedPhases = << >>
  /\ planning_phases = << >>
  /\ queue = << >>
  /\ checklist = NoChecklist
  /\ error = NoError
  /\ executions = << >>
  /\ checklistRuns = 0
  /\ progress = NoProgress
  /\ call = IdleCall
  /\ parseFrame = IdleParse

\* const validation = validateJSON(output, phase.schema)
ValidateOutput ==
  /\ rp.step = "validate"
  /\ rp' = [ rp EXCEPT !.step = "validated",
                       !.validation = validateJSONResult(rp.output, StrategySchema) ]
  /\ UNCHANGED << projectStatus, preRunStatus, pc, i, completedPhases,
                  planning_phases, queue, checklist, error, executions,
                  checklistRuns, progress, call, parseFrame >>

NextValidate == ValidateOutput

SpecValidate == InitValidate /\ [][NextValidate]_vars

\* C34: validateJSON returns valid = true exactly when its error list is
\* empty, and for a value that lacks a required property it returns
\* valid = false with an error that names the property and its path, / for
\* a property of the root.
C34_ValidIffNoErrors ==
  rp.step = "validated" =>
    /\ rp.validation.valid <=> rp.validation.errors = << >>
    /\ rp.output.type = "object" =>
         \A name \in Range(StrategySchema.required) \ rp.output.has :
           /\ ~rp.validation.valid
           /\ << "/", " ", "must have required property '", name, "'" >>
                \in Range(rp.validation.errors)
    /\ rp.output.nestedType = "object" =>
         \A name \in Range(StrategySchema.nestedSchema.required) \ rp.output.nestedHas :
           /\ ~rp.validation.valid
           /\ << "/priorityMatrix", " ", "must have required property '", name, "'" >>
                \in Range(rp.validation.errors)

\* an object without its decisions, its priorityMatrix without must
C34_Witness ==
  /\ rp.step = "validated"
  /\ rp.output.type = "object"
  /\ rp.output.has = { "problem", "priorityMatrix" }
  /\ rp.output.nestedType = "object"
  /\ "must" \notin rp.output.nestedHas
  /\ ~rp.validation.valid
  /\ Len(rp.validation.errors) >= 2


\* C35: the upstream-signal rule passes whenever the competitor stage
\* produced no findings; when it produced findings the rule passes if and
\* only if the strategy output holds an item in the must list of its
\* schema, and otherwise the evaluation fails with a revision request for
\* the strategy stage.
C35_UpstreamSignalRule ==
  checklist.status # "none" =>
    LET competitor == OutputByType(completedPhases, "competitor")
        strategy   == OutputByType(completedPhases, "strategy")
        passed     == checklist.items[Len(checklist.items)].passed
        requested  == \E k \in 1..Len(checklist.targetedRevisions) :
                        checklist.targetedRevisions[k].phase = "strategy"
    IN  /\ checklist.items[Len(checklist.items)].check = "competitor"
        /\ ~competitor.hasCompetitorData => passed /\ ~requested
        /\ competitor.hasCompetitorData =>
             /\ passed <=> strategy.priorityMust
             /\ ~passed => checklist.status = "fail" /\ requested
             /\ passed => ~requested


\* the executions of the critic stage
CriticExecutions ==
  { k \in 1..Len(executions) : executions[k].phase = "critic" }

\* the first-pass critic output asks for revision
FirstCriticAsks ==
  \/ Len(revsOf(FirstCritic.output)) > 0
  \/ severityOf(FirstCritic.output) >= SeverityThreshold

\* C36: CriticReview invokes no stage and decides from the critic result of
\* the first pass, which is the one in the collection also after AutoFix
\* replaced other results; the critic stage runs again only in ReCritic,
\* after that decision, or in TargetedRerun when the first-pass critic
\* output names the critic itself.
C36_GuardFromFirstPassCritic ==
  /\ [][pc = "criticReview" =>
          /\ executions' = executions
          /\ planning_phases' = planning_phases
          /\ completedPhases' = completedPhases
          /\ Cardinality(CriticExecutions) = 1
          /\ Cardinality(CriticRows) = 1
          /\ FirstCritic.status = "completed"
          /\ CurrentCritic = FirstCritic.output
          /\ pc' \in { "targetedRerun", "reCritic" } <=> FirstCriticAsks
          /\ pc' = "finish" <=> ~FirstCriticAsks]_vars
  /\ [](\A k \in CriticExecutions :
          \/ executions[k].during = "firstPass"
          \/ /\ executions[k].during = "reCritic"
             /\ FirstCriticAsks
          \/ /\ executions[k].during = "targetedRerun"
             /\ FirstCriticAsks
             /\ "critic" \in Range(revsOf(FirstCritic.output)))

\* AutoFix has replaced a result, and the review has just sent the run on
\* to the re-runs without another execution of the critic
C36_Witness ==
  /\ pc = "targetedRerun"
  /\ rp.step = "idle"
  /\ Count("autoFix") > 0
  /\ Count("targetedRerun") = 0
  /\ Cardinality(CriticExecutions) = 1
  /\ CurrentCritic = FirstCritic.output


\* C37: a re-run in AutoFix, TargetedRerun, ReCritic or Recompose puts its
\* result in the place of the entry of its stage type and leaves every
\* other entry of the collection as it was; once the first pass is through,
\* the collection holds one entry per stage type, in catalogue order.
C37_ReplacedInPlace ==
  /\ [][(pc \in RunPcs \ { "firstPass" } /\ rp.step = "update") =>
          \/ completedPhases' = completedPhases /\ rp'.step # "idle"
          \/ /\ rp'.step = "idle"
             /\ Len(completedPhases') = Len(completedPhases)
             /\ \E idx \in 1..Len(completedPhases) :
                  /\ completedPhases[idx].phase_type = rp.phase
                  /\ completedPhases'[idx].phase_type = rp.phase
                  /\ completedPhases'[idx].id = rp.recordId
                  /\ completedPhases'[idx].output = rp.output
                  /\ \A k \in 1..Len(completedPhases) :
                       k # idx => completedPhases'[k] = completedPhases[k]]_vars
  /\ [][(pc \in RunPcs \ { "firstPass" } /\ rp.step # "update") =>
          completedPhases' = completedPhases]_vars
  /\ [](i > NumPhases =>
          /\ Len(completedPhases) = NumPhases
          /\ \A k \in 1..NumPhases : completedPhases[k].phase_type = AGENT_PHASES[k])

\* the system stage was re-run in AutoFix: its entry, fourth in the
\* collection, is the result of the later row
C37_Witness ==
  /\ pc \in { "autoFix", "criticReview" }
  /\ rp.step = "idle"
  /\ i > NumPhases
  /\ \E k \in 1..(NumPhases - 1) :
       /\ completedPhases[k].phase_type = "system"
       /\ AGENT_PHASES[k] = "system"
       /\ completedPhases[k].id > NumPhases


\* the run failed at its load: it has written nothing
LoadFailed == pc = "rejected" /\ error.kind \in { "notFound", "projErr" }

\* C38: once the run has loaded its project, the status of the project is
\* completed only if every stage type has a completed result, the
\* convergence phases are through and no stage execution is in progress;
\* and while a row of the run is in status processing, the status of the
\* project is planning.
C38_StatusFollowsRun ==
  /\ (projectStatus = "completed" /\ pc # "load" /\ ~LoadFailed) =>
       /\ pc = "done"
       /\ rp.step = "idle"
       /\ ProcessingRows = { }
       /\ CompletedTypes = PhaseTypes
  /\ ProcessingRows # { } => projectStatus = "planning"


\* C39: when the project cannot be loaded, for a read error or for want of
\* a project of that id, runAllPhases fails at once: the status of the
\* project is as it was, no row has been created, no stage invoked and the
\* observer has not been notified.
C39_LoadFailureTouchesNothing ==
  /\ [][pc = "load" =>
          /\ projectStatus = "none" => pc' = "rejected" /\ error'.kind \in { "notFound", "projErr" }
          /\ pc' = "rejected" =>
               /\ projectStatus' = projectStatus
               /\ planning_phases' = planning_phases
               /\ executions' = executions
               /\ progress' = progress]_vars
  /\ [](LoadFailed =>
          /\ projectStatus = preRunStatus
          /\ planning_phases = << >>
          /\ completedPhases = << >>
          /\ executions = << >>
          /\ progress = NoProgress
          /\ rp = IdleFrame
          /\ call = IdleCall)
  /\ [][LoadFailed => UNCHANGED vars]_vars

\* the read of a draft project failed
C39_Witness ==
  /\ LoadFailed
  /\ error.kind = "projErr"
  /\ preRunStatus = "draft"
  /\ projectStatus = "draft"


\* the results of the first pass, as the rows of the store hold them
FirstPassRows ==
  SelectSeq(SubSeq(planning_phases, 1, Min(NumPhases, Len(planning_phases))),
            LAMBDA row : row.status = "completed")

\* C of the bound: the revision requests the one checklist evaluation emits,
\* none before the first pass is through
ChecklistRequests ==
  IF Len(FirstPassRows) = NumPhases /\ checklistRuns > 0
  THEN Len(runQualityChecklist(FirstPassRows).targetedRevisions)
  ELSE 0

\* R of the bound: the revision requests of the first-pass critic output
CriticRequests ==
  IF CriticRows # { } /\ FirstCritic.status = "completed"
  THEN Len(revsOf(FirstCritic.output))
  ELSE 0

Terminated == pc \in { "done", "rejected" }

\* C40: every backend call and store operation returning, a run ends, in
\* Done or in an abort, and it makes at most N + C + R + 2 stage executions:
\* N the stages of the catalogue, C the requests of the checklist
\* evaluation, R the requests of the first-pass critic output.
C40_TerminatesWithinBound ==
  /\ <>Terminated
  /\ [](Len(executions) <= NumPhases + ChecklistRequests + CriticRequests + 2)
  /\ [][Terminated => executions' = executions /\ pc' = pc]_vars

\* a run that is done after making every execution the bound allows
C40_Witness ==
  /\ pc = "done"
  /\ ChecklistRequests > 0
  /\ CriticRequests > 0
  /\ Len(executions) = NumPhases + ChecklistRequests + CriticRequests + 2

====
